---------------------------- MODULE Spec2Model ----------------------------
(***************************************************************************)
(* A model of yfinance (fork "yahoo-finance-fix"): the price-series        *)
(* normaliser TickerBase.history with utils.parse_quotes, parse_actions,   *)
(* auto_adjust and back_adjust, the payload extractor utils.get_json and   *)
(* the fundamentals pipeline TickerBase._get_fundamentals with its getters.*)
(* The statements of that pipeline are also modelled in detail, from       *)
(* utils.build_template and utils.retreive_financial_details to the merge  *)
(* of the annual and the trailing table.                                   *)
(* A ticker's history calls and its getters of the dividends and splits    *)
(* are also modelled in sequence, with the shared store of results and     *)
(* error messages.                                                         *)
(*                                                                         *)
(* Numbers are exact rationals <<n, d>> (d > 0, lowest terms); <<0, 0>> is *)
(* NaN, pandas' null, and <<1, 0>> is +inf.  Prices and volumes are        *)
(* non-negative.  The rounding error of binary floating point is not       *)
(* modelled.                                                               *)
(***************************************************************************)
EXTENDS Integers, Sequences, FiniteSets, TLC

VARIABLES
    adj_arg,    \* the table the caller built, as it was before the call
    adj_data,   \* the caller's table object handed to utils.auto_adjust / back_adjust
    adj_ret,    \* what the adjustment returned
    adj_pc      \* "start", then the adjustment that ran: "auto" or "back"

VARIABLES
    js_page,    \* the page utils.get_json is asked to fetch
    js_ret,     \* what get_json returned or raised
    js_pc       \* "start", then "done"

VARIABLES
    shared,     \* shared._DFS and shared._ERRORS, the ticker's entries
    hist_call,  \* the arguments of the history call and the response it got
    hist_ret,   \* what history returned or raised, and the request it made
    requests,   \* the number of chart requests sent so far
    hist_pc     \* "start" before the call, "done" after

VARIABLES
    self,       \* the TickerBase object: its cached fields
    web,        \* what finance.yahoo.com serves for the ticker's pages
    fetches,    \* the number of utils.get_json calls made so far
    getret,     \* the last getter call and what it returned or raised
    calls       \* the number of calls made on the ticker so far

VARIABLES
    stores,     \* the FinancialTemplateStore and QuoteTimeSeriesStore of a page
    stmt_ret,   \* the statement function that ran and what it returned or raised
    stmt_pc     \* "start" before the call, "done" after

adjvars == <<adj_arg, adj_data, adj_ret, adj_pc>>

jsvars == <<js_page, js_ret, js_pc>>

fundvars == <<self, web, fetches, getret, calls>>

histvars == <<shared, hist_call, hist_ret, requests, hist_pc>>

stmtvars == <<stores, stmt_ret, stmt_pc>>

vars == <<adj_arg, adj_data, adj_ret, adj_pc, js_page, js_ret, js_pc,
          self, web, fetches, getret, calls, shared, hist_call, hist_ret, requests, hist_pc,
          stores, stmt_ret, stmt_pc>>

---------------------------------------------------------------------------
(* Rational arithmetic as numpy's float division and multiplication behave *)
(* on non-negative operands: x/0 = inf, 0/0 = NaN, NaN and inf propagate.  *)

NaN == <<0, 0>>
Inf == <<1, 0>>

IsNull(q) == q = NaN

Abs(n) == IF n < 0 THEN -n ELSE n

Sgn(n) == IF n > 0 THEN 1 ELSE IF n < 0 THEN -1 ELSE 0

RECURSIVE GCD(_, _)
GCD(a, b) == IF b = 0 THEN a ELSE GCD(b, a % b)

Norm(n, d) ==
    IF d = 0 THEN <<Sgn(n), 0>>
    ELSE LET s == IF d < 0 THEN -1 ELSE 1
             g == GCD(Abs(n), Abs(d))
         IN  <<(s * n) \div g, (s * d) \div g>>

QInt(n) == <<n, 1>>

QDiv(a, b) == Norm(a[1] * b[2], a[2] * b[1])

QMul(a, b) == Norm(a[1] * b[1], a[2] * b[2])

QAdd(a, b) ==
    IF a[2] = 0 \/ b[2] = 0
    THEN (IF IsNull(a) \/ IsNull(b) THEN NaN ELSE Inf)
    ELSE Norm(a[1] * b[2] + b[1] * a[2], a[2] * b[2])

\* a <= b on finite operands
QLe(a, b) == a[1] * b[2] <= b[1] * a[2]

---------------------------------------------------------------------------
(* Tables: a DataFrame is its column order, its rows in index order (each  *)
(* row its timestamp and a cell per column) and the timezone of its index. *)

OHLC == <<"Open", "High", "Low", "Close">>

QuoteColumns == <<"Open", "High", "Low", "Close", "Adj Close", "Volume">>

Range(s) == {s[i] : i \in 1..Len(s)}

Table(cols, rows, tz) == [cols |-> cols, rows |-> rows, tz |-> tz]

\* utils.empty_df(): the six price columns, no rows, index named Date
empty_df == Table(QuoteColumns, <<>>, "naive")

Column(t, name) == [i \in 1..Len(t.rows) |-> t.rows[i].c[name]]

\* df[name] = vals: overwrite the column, or append it as the last one
SetColumn(t, name, vals) ==
    [t EXCEPT
        !.cols = IF name \in Range(t.cols) THEN t.cols ELSE Append(t.cols, name),
        !.rows = [i \in 1..Len(t.rows) |->
                    [t.rows[i] EXCEPT !.c =
                        [n \in DOMAIN t.rows[i].c \cup {name} |->
                            IF n = name THEN vals[i] ELSE t.rows[i].c[n]]]]]

\* df.drop(names, axis=1, inplace=True)
DropColumns(t, names) ==
    [t EXCEPT
        !.cols = SelectSeq(t.cols, LAMBDA n : n \notin names),
        !.rows = [i \in 1..Len(t.rows) |->
                    [t.rows[i] EXCEPT !.c =
                        [n \in DOMAIN t.rows[i].c \ names |-> t.rows[i].c[n]]]]]

\* df.rename(columns={from: to}, inplace=True), one pair
RenameColumn(t, from, to) ==
    [t EXCEPT
        !.cols = [i \in 1..Len(t.cols) |-> IF t.cols[i] = from THEN to ELSE t.cols[i]],
        !.rows = [i \in 1..Len(t.rows) |->
                    [t.rows[i] EXCEPT !.c =
                        [n \in (DOMAIN t.rows[i].c \ {from}) \cup {to} |->
                            IF n = to THEN t.rows[i].c[from] ELSE t.rows[i].c[n]]]]]

\* df[[names]]: a new table with these columns in this order
SelectColumns(t, names) ==
    [t EXCEPT
        !.cols = names,
        !.rows = [i \in 1..Len(t.rows) |->
                    [t.rows[i] EXCEPT !.c = [n \in Range(names) |-> t.rows[i].c[n]]]]]

\* A column built from a list of only None has dtype object, and Python's
\* None / None raises TypeError; a list with at least one number is float64.
ObjectDtype(t, name) ==
    /\ Len(t.rows) > 0
    /\ \A i \in 1..Len(t.rows) : IsNull(t.rows[i].c[name])

---------------------------------------------------------------------------
(* Outcomes of a call: a returned table, or an exception raised to the     *)
(* caller.                                                                 *)

NoTable == Table(<<>>, <<>>, "naive")

NoCall == [kind |-> "none", table |-> NoTable, exc |-> ""]

Returned(t) == [kind |-> "table", table |-> t, exc |-> ""]

Raised(e) == [kind |-> "raise", table |-> NoTable, exc |-> e]

---------------------------------------------------------------------------
(* utils.auto_adjust and utils.back_adjust.  Each works on df = data.copy()*)
(* and gives back [out |-> the outcome, data |-> the argument afterwards]. *)

AdjustTypeError(data) ==
    \E n \in {"Open", "High", "Low", "Close", "Adj Close"} : ObjectDtype(data, n)

\* auto_adjust as it would be without data.copy(): the in-place column edits
\* are made on the caller's own table.
auto_adjust_nocopy(data) ==
    LET ratio == [i \in 1..Len(data.rows) |->
                    QDiv(data.rows[i].c["Close"], data.rows[i].c["Adj Close"])]
        over(n) == [i \in 1..Len(data.rows) |-> QDiv(data.rows[i].c[n], ratio[i])]
        df1 == SetColumn(data, "Adj Open", over("Open"))
        df2 == SetColumn(df1, "Adj High", over("High"))
        df3 == SetColumn(df2, "Adj Low", over("Low"))
        df4 == DropColumns(df3, {"Open", "High", "Low", "Close"})
        df5 == RenameColumn(RenameColumn(RenameColumn(RenameColumn(df4,
                   "Adj Open", "Open"), "Adj High", "High"),
                   "Adj Low", "Low"), "Adj Close", "Close")
        df6 == SelectColumns(df5, <<"Open", "High", "Low", "Close", "Volume">>)
    IN  IF AdjustTypeError(data)
        THEN [out |-> Raised("TypeError"), data |-> data]
        ELSE [out |-> Returned(df6), data |-> df5]

auto_adjust(data) ==
    LET df == data
        ratio == [i \in 1..Len(df.rows) |->
                    QDiv(df.rows[i].c["Close"], df.rows[i].c["Adj Close"])]
        over(n) == [i \in 1..Len(df.rows) |-> QDiv(df.rows[i].c[n], ratio[i])]
        df1 == SetColumn(df, "Adj Open", over("Open"))
        df2 == SetColumn(df1, "Adj High", over("High"))
        df3 == SetColumn(df2, "Adj Low", over("Low"))
        df4 == DropColumns(df3, {"Open", "High", "Low", "Close"})
        df5 == RenameColumn(RenameColumn(RenameColumn(RenameColumn(df4,
                   "Adj Open", "Open"), "Adj High", "High"),
                   "Adj Low", "Low"), "Adj Close", "Close")
        df6 == SelectColumns(df5, <<"Open", "High", "Low", "Close", "Volume">>)
    IN  IF AdjustTypeError(data)
        THEN [out |-> Raised("TypeError"), data |-> data]
        ELSE [out |-> Returned(df6), data |-> data]

back_adjust(data) ==
    LET df == data
        ratio == [i \in 1..Len(df.rows) |->
                    QDiv(df.rows[i].c["Adj Close"], df.rows[i].c["Close"])]
        times(n) == [i \in 1..Len(df.rows) |-> QMul(df.rows[i].c[n], ratio[i])]
        df1 == SetColumn(df, "Adj Open", times("Open"))
        df2 == SetColumn(df1, "Adj High", times("High"))
        df3 == SetColumn(df2, "Adj Low", times("Low"))
        df4 == DropColumns(df3, {"Open", "High", "Low", "Adj Close"})
        df5 == RenameColumn(RenameColumn(RenameColumn(df4,
                   "Adj Open", "Open"), "Adj High", "High"), "Adj Low", "Low")
    IN  IF AdjustTypeError(data)
        THEN [out |-> Raised("TypeError"), data |-> data]
        ELSE [out |-> Returned(SelectColumns(df5,
                        <<"Open", "High", "Low", "Close", "Volume">>)),
              data |-> data]

---------------------------------------------------------------------------
(* utils.get_json.  A decoded payload is a tree of nodes: a number, a      *)
(* string, null, a map (its entries in order) or a list.  json.dumps turns *)
(* it into text, here the sequence of its lexical tokens; the two textual  *)
(* rewrites of get_json act on that text and json.loads parses the result. *)

Node(t, v, kids) == [t |-> t, v |-> v, kids |-> kids]

Num(v) == Node("num", v, <<>>)

Str(v) == Node("str", v, <<>>)

NullNode == Node("null", "null", <<>>)

Entry(k, n) == [k |-> k, n |-> n]

\* a map from its entries <<key, node>>, in order
Map(es) == Node("map", "", [i \in 1..Len(es) |-> Entry(es[i][1], es[i][2])])

List(ns) == Node("list", "", [i \in 1..Len(ns) |-> Entry("", ns[i])])

Tok(k, v) == [k |-> k, v |-> v]

LBrace == Tok("p", "{")
RBrace == Tok("p", "}")
LBracket == Tok("p", "[")
RBracket == Tok("p", "]")
Comma == Tok("p", ",")
Colon == Tok("p", ":")
NullTok == Tok("z", "null")

RECURSIVE dumps(_)
RECURSIVE DumpKids(_, _, _)

\* the entries of a map (keyed) or a list from position i on, comma-separated
DumpKids(kids, i, keyed) ==
    IF i > Len(kids) THEN <<>>
    ELSE (IF i > 1 THEN <<Comma>> ELSE <<>>)
         \o (IF keyed THEN <<Tok("s", kids[i].k), Colon>> ELSE <<>>)
         \o dumps(kids[i].n)
         \o DumpKids(kids, i + 1, keyed)

\* _json.dumps(data)
dumps(n) ==
    CASE n.t = "num" -> <<Tok("n", n.v)>>
      [] n.t = "str" -> <<Tok("s", n.v)>>
      [] n.t = "null" -> <<NullTok>>
      [] n.t = "map" -> <<LBrace>> \o DumpKids(n.kids, 1, TRUE) \o <<RBrace>>
      [] n.t = "list" -> <<LBracket>> \o DumpKids(n.kids, 1, FALSE) \o <<RBracket>>

RECURSIVE ReplaceEmptyMaps(_, _)

\* text.replace('{}', 'null'), from position i on
ReplaceEmptyMaps(s, i) ==
    IF i > Len(s) THEN <<>>
    ELSE IF i < Len(s) /\ s[i] = LBrace /\ s[i + 1] = RBrace
         THEN <<NullTok>> \o ReplaceEmptyMaps(s, i + 2)
         ELSE <<s[i]>> \o ReplaceEmptyMaps(s, i + 1)

\* the first position after i holding token t, or 0
FirstAfter(s, i, t) ==
    IF \E j \in (i + 1)..Len(s) : s[j] = t
    THEN CHOOSE j \in (i + 1)..Len(s) :
            s[j] = t /\ \A m \in (i + 1)..(j - 1) : s[m] # t
    ELSE 0

\* Where the pattern \{['|"]raw['|"]:(.*?),(.*?)\} matches at position i:
\* '{', the key raw and ':' , lazily up to the first ',' and from there
\* lazily up to the first '}'.  [ok, comma, close].
RawMatch(s, i) ==
    LET head == /\ i + 2 <= Len(s)
                /\ s[i] = LBrace
                /\ s[i + 1] = Tok("s", "raw")
                /\ s[i + 2] = Colon
        j == IF head THEN FirstAfter(s, i + 2, Comma) ELSE 0
        k == IF j > 0 THEN FirstAfter(s, j, RBrace) ELSE 0
    IN  [ok |-> k > 0, comma |-> j, close |-> k]

RECURSIVE SubRaw(_, _)

\* _re.sub(pattern, r'\1', text), from position i on: each match, leftmost
\* first and not overlapping, is replaced by its first group
SubRaw(s, i) ==
    IF i > Len(s) THEN <<>>
    ELSE LET m == RawMatch(s, i)
         IN  IF m.ok
             THEN SubSeq(s, i + 3, m.comma - 1) \o SubRaw(s, m.close + 1)
             ELSE <<s[i]>> \o SubRaw(s, i + 1)

ParseFail == [ok |-> FALSE, node |-> NullNode, next |-> 0]

Parsed(n, next) == [ok |-> TRUE, node |-> n, next |-> next]

\* d[key] = n in a dict under construction: a repeated key keeps its place
PutEntry(acc, key, n) ==
    IF \E i \in 1..Len(acc) : acc[i].k = key
    THEN [i \in 1..Len(acc) |-> IF acc[i].k = key THEN Entry(key, n) ELSE acc[i]]
    ELSE Append(acc, Entry(key, n))

RECURSIVE ParseValue(_, _)
RECURSIVE ParseMembers(_, _, _)
RECURSIVE ParseElements(_, _, _)

ParseMembers(s, i, acc) ==
    IF i + 2 > Len(s) \/ s[i].k # "s" \/ s[i + 1] # Colon THEN ParseFail
    ELSE LET v == ParseValue(s, i + 2)
         IN  IF ~v.ok \/ v.next > Len(s) THEN ParseFail
             ELSE IF s[v.next] = Comma
                  THEN ParseMembers(s, v.next + 1, PutEntry(acc, s[i].v, v.node))
                  ELSE IF s[v.next] = RBrace
                       THEN Parsed(Node("map", "", PutEntry(acc, s[i].v, v.node)),
                                   v.next + 1)
                       ELSE ParseFail

ParseElements(s, i, acc) ==
    LET v == ParseValue(s, i)
    IN  IF ~v.ok \/ v.next > Len(s) THEN ParseFail
        ELSE IF s[v.next] = Comma
             THEN ParseElements(s, v.next + 1, Append(acc, Entry("", v.node)))
             ELSE IF s[v.next] = RBracket
                  THEN Parsed(Node("list", "", Append(acc, Entry("", v.node))),
                              v.next + 1)
                  ELSE ParseFail

ParseValue(s, i) ==
    IF i > Len(s) THEN ParseFail
    ELSE CASE s[i].k = "n" -> Parsed(Num(s[i].v), i + 1)
           [] s[i].k = "s" -> Parsed(Str(s[i].v), i + 1)
           [] s[i].k = "z" -> Parsed(NullNode, i + 1)
           [] s[i] = LBrace ->
                IF i < Len(s) /\ s[i + 1] = RBrace
                THEN Parsed(Node("map", "", <<>>), i + 2)
                ELSE ParseMembers(s, i + 1, <<>>)
           [] s[i] = LBracket ->
                IF i < Len(s) /\ s[i + 1] = RBracket
                THEN Parsed(Node("list", "", <<>>), i + 2)
                ELSE ParseElements(s, i + 1, <<>>)
           [] OTHER -> ParseFail

\* _json.loads(text): the tree, or ok = FALSE where it raises ValueError
loads(s) ==
    LET v == ParseValue(s, 1)
    IN  IF v.ok /\ v.next = Len(s) + 1 THEN v ELSE ParseFail

NoPayload == [kind |-> "none", tree |-> NullNode, exc |-> ""]

Payload(n) == [kind |-> "tree", tree |-> n, exc |-> ""]

PayloadError(e) == [kind |-> "raise", tree |-> NullNode, exc |-> e]

\* A page: whether its HTML holds the marker 'root.App.main =', whether the
\* literal after it is JSON, and the tree that literal decodes to.
Page(marker, literal, tree) == [marker |-> marker, literal |-> literal, tree |-> tree]

get_json(page) ==
    IF ~page.marker THEN PayloadError("IndexError")
    ELSE IF ~page.literal THEN PayloadError("ValueError")
    ELSE LET data == page.tree
             new_data == SubRaw(ReplaceEmptyMaps(dumps(data), 1), 1)
             r == loads(new_data)
         IN  IF r.ok THEN Payload(r.node) ELSE PayloadError("ValueError")

---------------------------------------------------------------------------
(* TickerBase: the object's fields.  A cached section is None, the         *)
(* placeholder utils.empty_df(), an empty DataFrame(), a dict, or a table  *)
(* built from the payload `of` (the version of the page it came from).     *)

Value(k, of, part) == [k |-> k, of |-> of, part |-> part]

None == Value("None", "", "")

EmptyDf == Value("empty_df", "", "")

EmptyFrame == Value("DataFrame", "", "")

Built(of, part) == Value("table", of, part)

NoHistory == [k |-> "None", t |-> NoTable]

\* TickerBase.__init__; each quarterly_* field is the "quarterly" entry of
\* the one-entry dict the code keeps
NewTicker ==
    [history |-> NoHistory,
     fundamentals |-> FALSE,
     info |-> None,
     sustainability |-> None,
     recommendations |-> None,
     analyst_trend_details |-> None,
     analyst_price_target |-> None,
     rev_est |-> None,
     eps_est |-> None,
     major_holders |-> None,
     institutional_holders |-> None,
     mutualfund_holders |-> None,
     calendar |-> None,
     income_statement |-> None,
     balance_sheet |-> None,
     cash_flow_statement |-> None,
     earnings |-> [yearly |-> EmptyDf, quarterly |-> EmptyDf, financialCurrency |-> FALSE],
     quarterly_income_statement |-> EmptyDf,
     quarterly_balance_sheet |-> EmptyDf,
     quarterly_cash_flow |-> EmptyDf]

---------------------------------------------------------------------------
(* The pages _get_fundamentals reads.  `fetch` is what get_json does with  *)
(* the page: "nomarker" (IndexError), "badjson" (ValueError) or "ok"; the  *)
(* other fields are the shape of the decoded payload.                      *)

\* the quote page: root is "dict" or "null" (a payload {} decodes to None);
\* esg, cal and rec are "ok" or "bad" (missing or malformed); sd says
\* whether summaryDetail is a dict; price is "missing", "dict" or "null"
MainPage(fetch, root, esg, sd, price, cal, rec, v) ==
    [fetch |-> fetch, root |-> root, esg |-> esg, sd |-> sd, price |-> price,
     cal |-> cal, rec |-> rec, v |-> v]

\* a statement page: QuoteSummaryStore is "ok", "missing" or "null";
\* quarterly is "ok" or "bad"; earnings is "ok", "missing", "noYearly" or
\* "noQuarterly"; tmpl (FinancialTemplateStore) is "ok", "missing" or
\* "dup" (a key listed twice); series (QuoteTimeSeriesStore) is "ok",
\* "missing", "noTTM" or "noAnnual" (no metric of that period type)
StatementPage(fetch, qss, quarterly, earnings, tmpl, series, v) ==
    [fetch |-> fetch, qss |-> qss, quarterly |-> quarterly, earnings |-> earnings,
     tmpl |-> tmpl, series |-> series, v |-> v]

\* the analysis page: trend (recommendationTrend.trend) is "ok", "empty"
\* or "missing"; findata and etrend (earningsTrend) are "ok" or "missing"
AnalysisPage(fetch, qss, trend, findata, etrend, v) ==
    [fetch |-> fetch, qss |-> qss, trend |-> trend, findata |-> findata,
     etrend |-> etrend, v |-> v]

Web(h, m, f, b, c, a) ==
    [holders |-> h, main |-> m, financials |-> f, balance |-> b, cashflow |-> c,
     analysis |-> a]

\* what get_json raises on a page it cannot extract
FetchError(fetch) == IF fetch = "nomarker" THEN "IndexError" ELSE "ValueError"

\* the outcome of a run: the object afterwards, the exception that left
\* _get_fundamentals ("" for none) and where, and the get_json calls made
Run(s, exc, at, n) == [self |-> s, exc |-> exc, at |-> at, n |-> n]

\* lines 317-350: the holders tables, h of them parsed
Holders(s, h) ==
    [s EXCEPT
        !.major_holders = IF h >= 1 THEN Built("h", "major") ELSE @,
        !.institutional_holders = IF h >= 2 THEN Built("h", "institutional") ELSE @,
        !.mutualfund_holders = IF h >= 3 THEN Built("h", "mutualfund") ELSE @]

\* lines 354-381: sustainability, and info from the items that are dicts
Sustainability(s, m) ==
    [s EXCEPT
        !.sustainability =
            IF m.root = "dict" /\ m.esg = "ok" THEN Built(m.v, "esgScores") ELSE @,
        !.info = Value("dict", IF m.root = "dict" /\ m.sd = "ok" THEN m.v ELSE "",
                       IF m.root = "dict" /\ m.sd = "ok" THEN "summaryDetail" ELSE "")]

\* lines 383-385, outside any try: data.get on None, info.update(None)
InfoError(m) ==
    IF m.root = "null" THEN "AttributeError"
    ELSE IF m.sd # "ok" /\ m.price = "null" THEN "TypeError"
    ELSE ""

\* lines 383-426: info completed, calendar, recommendations
Events(s, m) ==
    [s EXCEPT
        !.info = IF m.sd # "ok" /\ m.price = "dict"
                 THEN Value("dict", m.v, "price") ELSE @,
        !.calendar = IF m.cal = "ok" THEN Built(m.v, "calendarEvents") ELSE @,
        !.recommendations =
            IF m.rec = "ok" THEN Built(m.v, "upgradeDowngradeHistory") ELSE @]

\* line 429 and the first data.get of line 444, outside any try
StoreError(f) ==
    IF f.qss = "missing" THEN "KeyError"
    ELSE IF f.qss = "null" THEN "AttributeError"
    ELSE ""

\* lines 431-466: the quarterly statements and the earnings
Quarterly(s, f) ==
    [s EXCEPT
        !.quarterly_cash_flow =
            IF f.quarterly = "ok" THEN Built(f.v, "cashflowStatements") ELSE @,
        !.quarterly_balance_sheet =
            IF f.quarterly = "ok" THEN Built(f.v, "balanceSheetStatements") ELSE @,
        !.quarterly_income_statement =
            IF f.quarterly = "ok" THEN Built(f.v, "incomeStatementHistory") ELSE @,
        !.earnings =
            [yearly |-> IF f.earnings \in {"ok", "noQuarterly"}
                        THEN Built(f.v, "yearly") ELSE @.yearly,
             quarterly |-> IF f.earnings = "ok" THEN Built(f.v, "quarterly")
                           ELSE @.quarterly,
             financialCurrency |-> IF f.earnings = "missing"
                                   THEN @.financialCurrency ELSE TRUE]]

\* Whether assembling a statement raises inside its try block: the page or
\* a store is missing, set_index("index") fails on an empty TTM or Annual
\* list, or the merge on a repeated key yields more rows than level_detail.
\* The balance sheet uses only the Annual table and does not merge.
StatementRaises(kind, pg) ==
    \/ pg.fetch # "ok"
    \/ pg.tmpl = "missing"
    \/ pg.series \in {"missing", "noAnnual"}
    \/ kind # "balance_sheet" /\ (pg.series = "noTTM" \/ pg.tmpl = "dup")

\* lines 468-535: one statement, an empty DataFrame() where it raised
Statement(kind, pg) ==
    IF StatementRaises(kind, pg) THEN EmptyFrame ELSE Built(pg.v, kind)

\* lines 537-549: the analysis payload ({} where it could not be had), the
\* recommendation trend and the price target
TrendRows(a) == a.fetch = "ok" /\ a.qss = "ok" /\ a.trend = "ok"

Analysis(s, a) ==
    [s EXCEPT
        !.analyst_trend_details =
            IF TrendRows(a) THEN Built(a.v, "recommendationTrend")
            ELSE EmptyFrame,
        !.analyst_price_target =
            IF a.fetch = "ok" /\ a.qss = "ok" /\ a.findata = "ok"
            THEN Built(a.v, "financialData") ELSE EmptyFrame]

\* line 553, outside any try: analysis_data['earningsTrend']['trend']
TrendError(a) == IF TrendRows(a) /\ a.etrend # "ok" THEN "KeyError" ELSE ""

\* lines 550-570: the estimates
Estimates(s, a) ==
    [s EXCEPT
        !.rev_est = IF TrendRows(a) THEN Built(a.v, "revenueEstimate") ELSE EmptyFrame,
        !.eps_est = IF TrendRows(a) THEN Built(a.v, "earningsEstimate") ELSE EmptyFrame]

\* the three statements as they would be inside one try block: the first
\* that raises leaves the later ones unassigned
StatementsInOneTry(s, w) ==
    LET i == StatementRaises("income_statement", w.financials)
        b == StatementRaises("balance_sheet", w.balance)
    IN  [s EXCEPT
            !.income_statement = Statement("income_statement", w.financials),
            !.balance_sheet = IF i THEN @ ELSE Statement("balance_sheet", w.balance),
            !.cash_flow_statement =
                IF i \/ b THEN @ ELSE Statement("cash_flow_statement", w.cashflow)]

\* lines 468-535
Statements(s, w) ==
    [s EXCEPT
        !.income_statement = Statement("income_statement", w.financials),
        !.balance_sheet = Statement("balance_sheet", w.balance),
        !.cash_flow_statement = Statement("cash_flow_statement", w.cashflow)]

\* lines 314-572: the run past the test of the flag
fetch_fundamentals(s, w) ==
    LET s1 == Holders(s, w.holders)
        s2 == Sustainability(s1, w.main)
        s3 == Events(s2, w.main)
        s4 == Quarterly(s3, w.financials)
        s5 == Statements(s4, w)
        s6 == Analysis(s5, w.analysis)
        s7 == [Estimates(s6, w.analysis) EXCEPT !.fundamentals = TRUE]
    IN  IF w.main.fetch # "ok"
        THEN Run(s1, FetchError(w.main.fetch), "main", 1)
        ELSE IF InfoError(w.main) # ""
        THEN Run(s2, InfoError(w.main), "info", 1)
        ELSE IF w.financials.fetch # "ok"
        THEN Run(s3, FetchError(w.financials.fetch), "financials", 2)
        ELSE IF StoreError(w.financials) # ""
        THEN Run(s3, StoreError(w.financials), "quarterly", 2)
        ELSE IF TrendError(w.analysis) # ""
        THEN Run(s6, TrendError(w.analysis), "estimates", 5)
        ELSE Run(s7, "", "", 5)

\* a run that does not test the flag
Refetch(s, w) == fetch_fundamentals(s, w)

\* lines 283-572: nothing is fetched once the flag is set (lines 311-312)
get_fundamentals(s, w) ==
    IF s.fundamentals THEN Run(s, "", "", 0) ELSE fetch_fundamentals(s, w)

---------------------------------------------------------------------------
(* The getters: each runs _get_fundamentals and returns one cached field.  *)

Getter(name, freq) == [name |-> name, freq |-> freq]

Getters ==
    {Getter(n, "") : n \in
        {"get_recommendations", "get_calendar", "get_major_holders",
         "get_institutional_holders", "get_mutualfund_holders", "get_info",
         "get_sustainability", "get_current_recommendations",
         "get_analyst_price_target", "get_rev_forecast", "get_earnings_forecast",
         "get_income_statement", "get_quarterly_income_statement",
         "get_balance_sheet", "get_quarterly_balance_sheet",
         "get_cash_flow_statement", "get_quarterly_cash_flow_statement"}}
    \cup {Getter("get_earnings", f) : f \in {"yearly", "quarterly"}}

\* the field a getter returns (lines 574-702)
Field(s, g) ==
    CASE g.name = "get_recommendations" -> s.recommendations
      [] g.name = "get_calendar" -> s.calendar
      [] g.name = "get_major_holders" -> s.major_holders
      [] g.name = "get_institutional_holders" -> s.institutional_holders
      [] g.name = "get_mutualfund_holders" -> s.mutualfund_holders
      [] g.name = "get_info" -> s.info
      [] g.name = "get_sustainability" -> s.sustainability
      [] g.name = "get_current_recommendations" -> s.analyst_trend_details
      [] g.name = "get_analyst_price_target" -> s.analyst_price_target
      [] g.name = "get_rev_forecast" -> s.rev_est
      [] g.name = "get_earnings_forecast" -> s.eps_est
      [] g.name = "get_earnings" -> s.earnings[g.freq]
      [] g.name = "get_income_statement" -> s.income_statement
      [] g.name = "get_quarterly_income_statement" -> s.quarterly_income_statement
      [] g.name = "get_balance_sheet" -> s.balance_sheet
      [] g.name = "get_quarterly_balance_sheet" -> s.quarterly_balance_sheet
      [] g.name = "get_cash_flow_statement" -> s.cash_flow_statement
      [] g.name = "get_quarterly_cash_flow_statement" -> s.quarterly_cash_flow

NoGet == [getter |-> Getter("", ""), kind |-> "none", val |-> None, exc |-> "", at |-> ""]

Got(g, v) == [getter |-> g, kind |-> "value", val |-> v, exc |-> "", at |-> ""]

GetRaised(g, e, at) == [getter |-> g, kind |-> "raise", val |-> None, exc |-> e, at |-> at]

---------------------------------------------------------------------------
(* TickerBase.history.  Time is counted in 15-minute slots since the epoch *)
(* and the exchange timezone is taken to have no offset from UTC.  The     *)
(* rounding option is left at its default (off).                           *)

\* 15-minute bars in one 30-minute window (quotes.resample('30T'))
BarsPerWindow == 2

\* 15-minute slots in one day
SlotsPerDay == 2

\* result[0] of a chart response: the bars (timestamp and the quote lists,
\* whose Adj Close is read only where the adjclose indicator is present),
\* and the dividend and split events
ChartResult(hasTimestamp, bars, hasAdjclose, dividends, splits) ==
    [hasTimestamp |-> hasTimestamp, bars |-> bars, hasAdjclose |-> hasAdjclose,
     dividends |-> dividends, splits |-> splits]

NoResult == ChartResult(FALSE, <<>>, FALSE, <<>>, <<>>)

\* a response: the outage banner, a body that is not JSON, or a decoded
\* body, whose chart entry (if any) has an error (a description, "" for
\* null) and a result ("null", "empty" or "list")
Response(kind, chart, error, result, r) ==
    [kind |-> kind, chart |-> chart, error |-> error, result |-> result, r |-> r]

HistoryArgs(interval, auto, back, actions, tz) ==
    [interval |-> interval, auto_adjust |-> auto, back_adjust |-> back,
     actions |-> actions, tz |-> tz]

\* the intervals whose last letter is "m"
MinuteIntervals == {"1m", "2m", "5m", "15m", "30m", "60m", "90m"}

\* lines 152-154: the interval of the request
RequestInterval(interval) == IF interval = "30m" THEN "15m" ELSE interval

Row(ts, c) == [ts |-> ts, c |-> c]

\* sort_index: ascending timestamps, rows of one timestamp in their order
RECURSIVE SortRows(_)
SortRows(rows) ==
    IF rows = <<>> THEN <<>>
    ELSE LET m == CHOOSE i \in 1..Len(rows) :
                    /\ \A j \in 1..Len(rows) : rows[i].ts <= rows[j].ts
                    /\ \A j \in 1..(i - 1) : rows[j].ts # rows[i].ts
         IN  <<rows[m]>> \o
             SortRows([k \in 1..(Len(rows) - 1) |-> IF k < m THEN rows[k] ELSE rows[k + 1]])

\* utils.parse_quotes
parse_quotes(data, tz) ==
    IF ~data.hasTimestamp THEN Raised("KeyError")
    ELSE IF tz = "invalid" THEN Raised("UnknownTimeZoneError")
    ELSE Returned(Table(QuoteColumns,
            SortRows([i \in 1..Len(data.bars) |->
                Row(data.bars[i].ts,
                    [n \in Range(QuoteColumns) |->
                        IF n = "Adj Close" /\ ~data.hasAdjclose
                        THEN data.bars[i].c["Close"] ELSE data.bars[i].c[n]])]),
            IF tz = "none" THEN "naive" ELSE tz))

\* utils.parse_actions: the dividends and the splits, each sorted
parse_actions(data, tz) ==
    [dividends |->
        Table(<<"Dividends">>,
              SortRows([i \in 1..Len(data.dividends) |->
                  Row(data.dividends[i].date,
                      [n \in {"Dividends"} |-> data.dividends[i].amount])]),
              IF tz = "none" \/ data.dividends = <<>> THEN "naive" ELSE tz),
     splits |->
        Table(<<"Stock Splits">>,
              SortRows([i \in 1..Len(data.splits) |->
                  Row(data.splits[i].date,
                      [n \in {"Stock Splits"} |->
                          QDiv(data.splits[i].numerator, data.splits[i].denominator)])]),
              IF tz = "none" \/ data.splits = <<>> THEN "naive" ELSE tz)]

Valid(vals) == SelectSeq(vals, LAMBDA q : ~IsNull(q))

\* first() and last() of a group: the first and the last value not null
FirstValid(vals) == IF Valid(vals) = <<>> THEN NaN ELSE Head(Valid(vals))

LastValid(vals) == IF Valid(vals) = <<>> THEN NaN ELSE Valid(vals)[Len(Valid(vals))]

\* max() and min() of a group, nulls skipped
MaxValid(vals) ==
    IF Valid(vals) = <<>> THEN NaN
    ELSE CHOOSE q \in Range(Valid(vals)) : \A r \in Range(Valid(vals)) : QLe(r, q)

MinValid(vals) ==
    IF Valid(vals) = <<>> THEN NaN
    ELSE CHOOSE q \in Range(Valid(vals)) : \A r \in Range(Valid(vals)) : QLe(q, r)

\* sum() of a group, nulls skipped, 0 for none
RECURSIVE SumValid(_)
SumValid(vals) ==
    IF vals = <<>> THEN QInt(0)
    ELSE QAdd(IF IsNull(Head(vals)) THEN QInt(0) ELSE Head(vals), SumValid(Tail(vals)))

\* the start of the 30-minute window of a timestamp
Window(ts) == BarsPerWindow * (ts \div BarsPerWindow)

\* lines 210-218: one row per 30-minute window from the first bar's to the
\* last bar's, empty windows included
resample(quotes) ==
    LET n == Len(quotes.rows)
        lo == Window(quotes.rows[1].ts)
        hi == Window(quotes.rows[n].ts)
        group(w, name) ==
            LET in == SelectSeq(quotes.rows, LAMBDA r : Window(r.ts) = w)
            IN  [i \in 1..Len(in) |-> in[i].c[name]]
        bin(w) ==
            Row(w, [name \in Range(QuoteColumns) |->
                CASE name = "Open" -> FirstValid(group(w, name))
                  [] name = "High" -> MaxValid(group(w, name))
                  [] name = "Low" -> MinValid(group(w, name))
                  [] name \in {"Close", "Adj Close"} -> LastValid(group(w, name))
                  [] name = "Volume" -> SumValid(group(w, name))])
    IN  IF n = 0 THEN Table(QuoteColumns, <<>>, quotes.tz)
        ELSE Table(QuoteColumns,
                   [k \in 1..((hi - lo) \div BarsPerWindow + 1) |->
                        bin(lo + (k - 1) * BarsPerWindow)],
                   quotes.tz)

\* quotes['Volume'].fillna(0)
FillVolume(quotes) ==
    SetColumn(quotes, "Volume",
        [i \in 1..Len(quotes.rows) |->
            IF IsNull(quotes.rows[i].c["Volume"]) THEN QInt(0)
            ELSE quotes.rows[i].c["Volume"]])

\* quotes.dropna(): only the rows without a null
dropna(t) ==
    [t EXCEPT !.rows = SelectSeq(t.rows, LAMBDA r : \A n \in DOMAIN r.c : ~IsNull(r.c[n]))]

\* df.dropna(how='all'): only the rows with a value
dropna_all(t) ==
    [t EXCEPT !.rows = SelectSeq(t.rows, LAMBDA r : \E n \in DOMAIN r.c : ~IsNull(r.c[n]))]

RECURSIVE Ascending(_)
Ascending(S) ==
    IF S = {} THEN <<>>
    ELSE LET m == CHOOSE x \in S : \A y \in S : x <= y
         IN  <<m>> \o Ascending(S \ {m})

Index(t) == {t.rows[i].ts : i \in 1..Len(t.rows)}

\* the cell of column name at timestamp ts, null where the table has none
\* (the index of t holds ts at most once)
Lookup(t, ts, name) ==
    IF name \in Range(t.cols) /\ ts \in Index(t)
    THEN (CHOOSE r \in Range(t.rows) : r.ts = ts).c[name]
    ELSE NaN

\* pd.concat([quotes, dividends, splits], axis=1, sort=True): the union of
\* the indexes in ascending order, every column of every table
concat(quotes, dividends, splits) ==
    LET cols == quotes.cols \o dividends.cols \o splits.cols
        index == Ascending(Index(quotes) \cup Index(dividends) \cup Index(splits))
        cell(ts, name) ==
            IF name = "Dividends" THEN Lookup(dividends, ts, name)
            ELSE IF name = "Stock Splits" THEN Lookup(splits, ts, name)
            ELSE Lookup(quotes, ts, name)
    IN  Table(cols,
              [k \in 1..Len(index) |->
                    Row(index[k], [name \in Range(cols) |-> cell(index[k], name)])],
              quotes.tz)

\* df[name].fillna(0, inplace=True)
FillZero(t, name) ==
    SetColumn(t, name,
        [i \in 1..Len(t.rows) |->
            IF IsNull(t.rows[i].c[name]) THEN QInt(0) ELSE t.rows[i].c[name]])

\* the date of a timestamp, as the timestamp of its midnight
Date(ts) == SlotsPerDay * (ts \div SlotsPerDay)

\* df.index = to_datetime(df.index.date)
Dates(t) ==
    [t EXCEPT !.rows = [i \in 1..Len(t.rows) |-> [t.rows[i] EXCEPT !.ts = Date(@)]],
              !.tz = "naive"]

\* df.drop_duplicates(): of the rows equal in every column, the first
drop_duplicates(t) ==
    LET keep == {i \in 1..Len(t.rows) : \A j \in 1..(i - 1) : t.rows[j].c # t.rows[i].c}
        order == Ascending(keep)
    IN  [t EXCEPT !.rows = [k \in 1..Len(order) |-> t.rows[order[k]]]]

\* df.groupby(df.index).last(): one row per timestamp, ascending, each
\* column the last of the group's values that is not null
groupby_last(t) ==
    LET index == Ascending(Index(t))
        group(ts, name) ==
            LET in == SelectSeq(t.rows, LAMBDA r : r.ts = ts)
            IN  [i \in 1..Len(in) |-> in[i].c[name]]
    IN  [t EXCEPT !.rows =
            [k \in 1..Len(index) |->
                Row(index[k], [name \in Range(t.cols) |-> LastValid(group(index[k], name))])]]

Frame(t) == [k |-> "table", t |-> t]

Shared(dfs, errors) == [DFS |-> dfs, ERRORS |-> errors]

\* err_msg of line 181
NoDataFound == "No data found for this date range, symbol may be delisted"

\* the outcome of a history call: what the caller gets, self._history and
\* the shared entries afterwards
Outcome(out, h, sh) == [out |-> out, history |-> h, shared |-> sh]

\* the empty table stored and returned without the message being recorded
DegradeUnrecorded(h, msg) ==
    Outcome(Returned(empty_df), h, Shared(Frame(empty_df), ""))

\* lines 184-188, 192-196, 202-206: the empty table, stored and returned
Degrade(h, msg) == Outcome(Returned(empty_df), h, Shared(Frame(empty_df), msg))

\* the adjustment with back_adjust tested before auto_adjust
AttemptBackFirst(quotes, a) ==
    IF a.back_adjust THEN back_adjust(quotes).out
    ELSE IF a.auto_adjust THEN auto_adjust(quotes).out
    ELSE Returned(quotes)

\* lines 229-232: the adjustment asked for
Attempt(quotes, a) ==
    IF a.auto_adjust THEN auto_adjust(quotes).out
    ELSE IF a.back_adjust THEN back_adjust(quotes).out
    ELSE Returned(quotes)

\* lines 228-241: where the adjustment r raised, the error is recorded and
\* the prices stay as they were
Adjusted(r, quotes, sh, a) ==
    IF r.kind = "raise"
    THEN [quotes |-> quotes,
          shared |-> Shared(Frame(empty_df),
                            IF a.auto_adjust THEN "auto_adjust failed with TypeError"
                            ELSE "back_adjust failed with TypeError")]
    ELSE [quotes |-> r.table, shared |-> sh]

Adjust(quotes, sh, a) == Adjusted(Attempt(quotes, a), quotes, sh, a)

\* lines 258-270: the index made aware and moved to the exchange timezone,
\* then cut to dates for the intervals that are neither minutes nor 1h
Localize(df, a) ==
    IF RequestInterval(a.interval) \in MinuteIntervals \cup {"1h"}
    THEN [df EXCEPT !.tz = "exchange"]
    ELSE [Dates(df) EXCEPT !.tz = IF a.tz # "none" THEN a.tz ELSE "naive"]

\* lines 209-218
Resampled(quotes, a) == IF a.interval = "30m" THEN resample(quotes) ELSE quotes

\* lines 246-256: the adjusted quotes cleaned and joined with the events
Join(adj, acts) ==
    [df |-> FillZero(FillZero(concat(dropna(FillVolume(adj.quotes)),
                                     acts.dividends, acts.splits),
                              "Dividends"), "Stock Splits"),
     shared |-> adj.shared]

\* lines 198-256 on a result whose quotes parse: the quotes resampled,
\* adjusted and cleaned, joined with the events
Combine(sh, a, resp) ==
    Join(Adjust(Resampled(parse_quotes(resp.r, a.tz).table, a), sh, a),
         parse_actions(resp.r, a.tz))

\* whether the call gets as far as the concatenation
Usable(a, resp) ==
    /\ resp.kind = "json"
    /\ resp.chart = "present"
    /\ resp.error = ""
    /\ resp.result = "list"
    /\ parse_quotes(resp.r, a.tz).kind = "table"

\* Where no bar and no event is left, the index of the concatenation is the
\* union of empty indexes: with pandas either a DatetimeIndex or a plain
\* Index, which has no tz_localize.
EmptyIndexes(a, resp) ==
    IF Usable(a, resp) /\ Combine(shared, a, resp).df.rows = <<>>
    THEN {"DatetimeIndex", "Index"}
    ELSE {"DatetimeIndex"}

\* lines 272-281: the cleanup, self._history and the returned table
Finish(tidy, sh, a) ==
    Outcome(Returned(IF a.actions THEN tidy
                     ELSE DropColumns(tidy, {"Dividends", "Stock Splits"})),
            Frame(tidy), sh)

\* lines 258-281 on the joined table c.df
Complete(h, a, c, emptyIndex) ==
    IF c.df.rows = <<>> /\ emptyIndex = "Index"
    THEN Outcome(Raised("AttributeError"), h, c.shared)
    ELSE IF c.df.tz # "naive"
    THEN Outcome(Raised("TypeError"), h, c.shared)
    ELSE Finish(groupby_last(drop_duplicates(dropna_all(Localize(c.df, a)))),
                c.shared, a)

\* TickerBase.history: h is self._history and sh the shared entries before
\* the call, emptyIndex the kind of index an empty concatenation has
history(h, sh, a, resp, emptyIndex) ==
    IF resp.kind = "banner" THEN Outcome(Raised("RuntimeError"), h, sh)
    ELSE IF resp.kind = "notjson" THEN Outcome(Raised("ValueError"), h, sh)
    ELSE IF resp.chart = "present" /\ resp.error # "" THEN Degrade(h, resp.error)
    ELSE IF resp.chart = "absent" \/ resp.result # "list" THEN Degrade(h, NoDataFound)
    ELSE IF parse_quotes(resp.r, a.tz).kind = "raise" THEN Degrade(h, NoDataFound)
    ELSE Complete(h, a, Combine(sh, a, resp), emptyIndex)

\* history(period="max", proxy=proxy): the call of the three getters, with
\* the defaults of lines 89-92
DefaultArgs == HistoryArgs("1d", TRUE, FALSE, TRUE, "none")

\* the columns a getter reads from self._history
ActionColumns(name) ==
    CASE name = "get_dividends" -> <<"Dividends">>
      [] name = "get_splits" -> <<"Stock Splits">>
      [] name = "get_actions" -> <<"Dividends", "Stock Splits">>

\* [], what the getters return while self._history is None
EmptyList == [k |-> "list", t |-> NoTable]

\* lines 708-709, 716-717, 723-724: the rows of these columns with a value
\* other than 0; get_actions drops the rows without one and puts 0 back
ActionRows(t, names) ==
    [SelectColumns(t, names) EXCEPT
        !.rows = SelectSeq(@, LAMBDA r :
                    \E n \in Range(names) :
                        r.c[n] # QInt(0) /\ (Len(names) = 1 \/ ~IsNull(r.c[n])))]

\* lines 707-710, 715-718, 722-725: the getter's value for the cached history
ActionsOf(h, name) ==
    IF h.k # "None" /\ Range(ActionColumns(name)) \subseteq Range(h.t.cols)
    THEN [k |-> "table", t |-> ActionRows(h.t, ActionColumns(name))]
    ELSE EmptyList

\* what a getter call did: its result, the fields it left, and whether it
\* sent a request
Fetched(g, r, fetched) ==
    [ret |-> IF r.out.kind = "raise" THEN GetRaised(g, r.out.exc, "history")
             ELSE Got(g, ActionsOf(r.history, g.name)),
     out |-> r.out, history |-> r.history, shared |-> r.shared, fetched |-> fetched]

\* a getter that reads the cached history and sends nothing
get_actions_unfetched(g, h, sh, resp, emptyIndex) ==
    Fetched(g, Outcome(NoCall, h, sh), FALSE)

\* lines 704-726: get_dividends, get_splits and get_actions
get_actions(g, h, sh, resp, emptyIndex) ==
    IF h.k = "None"
    THEN Fetched(g, history(h, sh, DefaultArgs, resp, emptyIndex), TRUE)
    ELSE Fetched(g, Outcome(NoCall, h, sh), FALSE)

NoHistoryCall ==
    [args |-> HistoryArgs("", FALSE, FALSE, FALSE, ""),
     resp |-> Response("", "", "", "", NoResult)]

HistoryIdle ==
    /\ shared = Shared(NoHistory, "")
    /\ hist_call = NoHistoryCall
    /\ hist_ret = [out |-> NoCall, interval |-> "", period |-> ""]
    /\ requests = 0
    /\ hist_pc = "start"

FundIdle ==
    /\ self = NewTicker
    /\ web = Web(0, "", "", "", "", "")
    /\ fetches = 0
    /\ getret = NoGet
    /\ calls = 0

---------------------------------------------------------------------------
(* The financial statements: utils.build_template,                         *)
(* utils.retreive_financial_details and the assembly of one statement in   *)
(* _get_fundamentals.  A string is the sequence of its pieces:             *)
(* "annualTotalRevenue" is <<"annual", "Total", "Revenue">>, a capitalised *)
(* piece being a camel-case word, so that 'annual' + key is a              *)
(* concatenation and str.replace('annual', '') takes out the piece         *)
(* "annual" wherever it stands.  A column header is such a sequence too.   *)

\* the deepest level build_template's loops reach
MaxLevel == 3

\* a template node without and with the 'children' key
Leaf(key) == [key |-> key]

Parent(key, children) == [key |-> key, children |-> children]

\* 'trailing{}'.format(key) and 'annual{}'.format(key)
trailing(key) == <<"trailing">> \o key

annual(key) == <<"annual">> \o key

\* one entry appended to the three lists
Item(key, level) == [key |-> key, level |-> level]

\* the siblings first, their children after them
RECURSIVE WalkSiblingsFirst(_, _)
WalkSiblingsFirst(nodes, level) ==
    IF nodes = <<>> THEN <<>>
    ELSE <<Item(Head(nodes).key, level)>>
            \o WalkSiblingsFirst(Tail(nodes), level)
            \o (IF "children" \in DOMAIN Head(nodes) /\ level < MaxLevel
                THEN WalkSiblingsFirst(Head(nodes).children, level + 1)
                ELSE <<>>)

\* utils.py:84-102: the loop over the nodes of one level; each node is
\* appended, then the loop over its children runs, down to level 3, whose
\* nodes' children are not looked at
RECURSIVE Walk(_, _)
Walk(nodes, level) ==
    IF nodes = <<>> THEN <<>>
    ELSE <<Item(Head(nodes).key, level)>>
            \o (IF "children" \in DOMAIN Head(nodes) /\ level < MaxLevel
                THEN Walk(Head(nodes).children, level + 1)
                ELSE <<>>)
            \o Walk(Tail(nodes), level)

\* the three lists, filled in step
Lists(items) ==
    [template_ttm_order |-> [i \in 1..Len(items) |-> trailing(items[i].key)],
     template_annual_order |-> [i \in 1..Len(items) |-> annual(items[i].key)],
     level_detail |-> [i \in 1..Len(items) |-> items[i].level]]

build_template(data) == Lists(Walk(data.template, 0))

\* an observation of a metric, and a list element that is not a map
Obs(asOfDate, reportedValue, periodType) ==
    [map |-> TRUE, asOfDate |-> asOfDate, reportedValue |-> reportedValue,
     periodType |-> periodType]

Scalar == [map |-> FALSE, asOfDate |-> <<>>, reportedValue |-> NaN, periodType |-> ""]

\* one entry of data['timeSeries']; a JSON object keeps its entries in order
Metric(key, obs) == [key |-> key, obs |-> obs]

\* the keys of time_series_dict after 'index', in the order they were set
RECURSIVE AsOfDates(_)
AsOfDates(obs) ==
    IF obs = <<>> THEN <<>>
    ELSE LET before == AsOfDates(SubSeq(obs, 1, Len(obs) - 1))
             d == obs[Len(obs)].asOfDate
         IN  IF d \in Range(before) THEN before ELSE Append(before, d)

\* utils.py:118-121: the row of a metric, a later observation of a date
\* overwriting an earlier one
time_series_dict(key, obs) ==
    [index |-> key,
     dates |-> AsOfDates(obs),
     c |-> [d \in {obs[i].asOfDate : i \in 1..Len(obs)} |->
                obs[CHOOSE i \in 1..Len(obs) :
                        /\ obs[i].asOfDate = d
                        /\ \A j \in (i + 1)..Len(obs) : obs[j].asOfDate # d].reportedValue]]

\* the list named by the first observation
ListOfFirst(obs) ==
    IF obs = <<>> THEN ""
    ELSE IF \E i \in 1..Len(obs) : ~obs[i].map THEN ""
    ELSE IF obs[1].periodType \in {"TTM", "12M"} THEN obs[1].periodType
    ELSE ""

\* utils.py:117-128: the list a metric's row is appended to, "" for none:
\* an empty list, an element that is not a map (TypeError, swallowed), or
\* a last observation of another period type
ListOf(obs) ==
    IF obs = <<>> THEN ""
    ELSE IF \E i \in 1..Len(obs) : ~obs[i].map THEN ""
    ELSE IF obs[Len(obs)].periodType \in {"TTM", "12M"} THEN obs[Len(obs)].periodType
    ELSE ""

\* the rows appended to one of the two lists, in the order of the keys
RECURSIVE Dicts(_, _)
Dicts(timeSeries, periodType) ==
    IF timeSeries = <<>> THEN <<>>
    ELSE (IF ListOf(Head(timeSeries).obs) = periodType
          THEN <<time_series_dict(Head(timeSeries).key, Head(timeSeries).obs)>>
          ELSE <<>>)
            \o Dicts(Tail(timeSeries), periodType)

\* what a function of this section returned or raised
Return(v) == [kind |-> "return", value |-> v, exc |-> ""]

Raise(e) == [kind |-> "raise", value |-> <<>>, exc |-> e]

\* utils.py:105-129; data['timeSeries'] is read outside the try
retreive_financial_details(data) ==
    IF "timeSeries" \notin DOMAIN data THEN Raise("KeyError")
    ELSE Return([TTM_dicts |-> Dicts(data.timeSeries, "TTM"),
                 Annual_dicts |-> Dicts(data.timeSeries, "12M")])

\* the columns of DataFrame.from_dict(dicts) after 'index': every key of
\* every dict, in the order first seen
RECURSIVE Columns(_)
Columns(dicts) ==
    IF dicts = <<>> THEN <<>>
    ELSE LET before == Columns(SubSeq(dicts, 1, Len(dicts) - 1))
         IN  before \o SelectSeq(dicts[Len(dicts)].dates, LAMBDA d : d \notin Range(before))

\* a statement table: its columns and its rows, each row its index label
\* and a cell per column
Statement_(columns, rows) == [columns |-> columns, rows |-> rows]

\* base.py:476-477: DataFrame.from_dict(dicts).set_index("index"); a cell
\* no dict sets is null, and an empty list has no "index" column
from_dict(dicts) ==
    IF dicts = <<>> THEN Raise("KeyError")
    ELSE Return(Statement_(Columns(dicts),
            [i \in 1..Len(dicts) |->
                [index |-> dicts[i].index,
                 c |-> [d \in Range(Columns(dicts)) |->
                            IF d \in DOMAIN dicts[i].c THEN dicts[i].c[d] ELSE NaN]]]))

\* the rows of the labels that are in the table only
reindex_present(df, order) ==
    [df EXCEPT !.rows =
        SelectSeq([i \in 1..Len(order) |->
                      IF \E r \in Range(df.rows) : r.index = order[i]
                      THEN CHOOSE r \in Range(df.rows) : r.index = order[i]
                      ELSE [index |-> <<>>, c |-> <<>>]],
                  LAMBDA r : r.index # <<>>)]

\* base.py:479-480: df.reindex(order) of a table whose labels are distinct:
\* a row per label of order, null where the table has none
reindex(df, order) ==
    [df EXCEPT !.rows =
        [i \in 1..Len(order) |->
            IF \E r \in Range(df.rows) : r.index = order[i]
            THEN CHOOSE r \in Range(df.rows) : r.index = order[i]
            ELSE [index |-> order[i], c |-> [d \in Range(df.columns) |-> NaN]]]]

\* base.py:481: 'TTM ' + str(col) for every column
ttm_columns(df) ==
    [columns |-> [i \in 1..Len(df.columns) |-> <<"TTM ">> \o df.columns[i]],
     rows |-> [i \in 1..Len(df.rows) |->
                [index |-> df.rows[i].index,
                 c |-> [d \in {<<"TTM ">> \o x : x \in Range(df.columns)} |->
                            df.rows[i].c[Tail(d)]]]]]

\* base.py:482-483: index.str.replace(pat, ''): every occurrence goes
str_replace(df, pat) ==
    [df EXCEPT !.rows =
        [i \in 1..Len(df.rows) |->
            [df.rows[i] EXCEPT !.index = SelectSeq(@, LAMBDA p : p # pat)]]]

\* the rows of right that carry a label, joined to a row of left
RECURSIVE Matches(_, _)
Matches(l, rows) ==
    IF rows = <<>> THEN <<>>
    ELSE (IF Head(rows).index = l.index
          THEN <<[index |-> l.index, c |-> l.c @@ Head(rows).c]>>
          ELSE <<>>)
            \o Matches(l, Tail(rows))

RECURSIVE MergeRows(_, _)
MergeRows(lrows, rrows) ==
    IF lrows = <<>> THEN <<>>
    ELSE Matches(Head(lrows), rrows) \o MergeRows(Tail(lrows), rrows)

\* base.py:484: left.merge(right, left_index=True, right_index=True), an
\* inner join on the labels in the order of left; a label that stands m
\* times in left and n times in right gives m * n rows
merge(left, right) ==
    Statement_(left.columns \o right.columns, MergeRows(left.rows, right.rows))

\* utils.camel2title of one label: a space before a capitalised piece that
\* follows another piece, then str.title(); a label is then the sequence
\* of its words, each the sequence of its pieces
RECURSIVE Words(_)
Words(key) ==
    IF key = <<>> THEN <<>>
    ELSE LET before == Words(SubSeq(key, 1, Len(key) - 1))
             p == key[Len(key)]
         IN  IF before # <<>> /\ p \in {"annual", "trailing"}
             THEN [before EXCEPT ![Len(before)] = Append(@, p)]
             ELSE Append(before, <<p>>)

camel2title(df) ==
    [df EXCEPT !.rows =
        [i \in 1..Len(df.rows) |-> [df.rows[i] EXCEPT !.index = Words(@)]]]

\* base.py:486-488: the level_detail column, which must be as long as the
\* table, moved into the index, then dropna(how='all')
WithLevels(df, level_detail) ==
    IF Len(df.rows) # Len(level_detail) THEN Raise("ValueError")
    ELSE Return(dropna_all(
            [df EXCEPT !.rows =
                [i \in 1..Len(df.rows) |->
                    [index |-> df.rows[i].index,
                     level_detail |-> level_detail[i],
                     c |-> df.rows[i].c]]]))

\* base.py:476-480: the two tables, reindexed by the template's orders
Reindexed(t, d) ==
    IF d.kind = "raise" THEN d
    ELSE IF from_dict(d.value.TTM_dicts).kind = "raise" THEN from_dict(d.value.TTM_dicts)
    ELSE IF from_dict(d.value.Annual_dicts).kind = "raise" THEN from_dict(d.value.Annual_dicts)
    ELSE Return([TTM |-> reindex(from_dict(d.value.TTM_dicts).value, t.template_ttm_order),
                 Annual |-> reindex(from_dict(d.value.Annual_dicts).value, t.template_annual_order)])

\* base.py:481-484: the TTM headers prefixed, the key prefixes taken off,
\* the two tables merged
Merged(TTM, Annual) ==
    merge(str_replace(Annual, "annual"), str_replace(ttm_columns(TTM), "trailing"))

\* DataFrame(), what a statement is set to where its try block raised
NoStatement == Statement_(<<>>, <<>>)

OrNoStatement(r) == IF r.kind = "raise" THEN NoStatement ELSE r.value

\* base.py:469-490 and 513-535: the income statement and the cash flow
\* statement of a page's two stores
MergedStatement(r, level_detail) ==
    IF r.kind = "raise" THEN r
    ELSE WithLevels(camel2title(Merged(r.value.TTM, r.value.Annual)), level_detail)

income_statement(pg) ==
    OrNoStatement(MergedStatement(
        Reindexed(build_template(pg.FinancialTemplateStore),
                  retreive_financial_details(pg.QuoteTimeSeriesStore)),
        build_template(pg.FinancialTemplateStore).level_detail))

\* base.py:493-510: the balance sheet, of the Annual table alone
AnnualStatement(d, t) ==
    IF d.kind = "raise" THEN d
    ELSE IF from_dict(d.value.Annual_dicts).kind = "raise" THEN from_dict(d.value.Annual_dicts)
    ELSE WithLevels(camel2title(str_replace(
            reindex(from_dict(d.value.Annual_dicts).value, t.template_annual_order),
            "annual")), t.level_detail)

balance_sheet(pg) ==
    OrNoStatement(AnnualStatement(
        retreive_financial_details(pg.QuoteTimeSeriesStore),
        build_template(pg.FinancialTemplateStore)))

\* the statement of one kind
statement(kind, pg) ==
    IF kind = "balance_sheet" THEN balance_sheet(pg) ELSE income_statement(pg)

NoStatementCall == [op |-> "", out |-> Return(<<>>)]

StatementIdle ==
    /\ stores = [FinancialTemplateStore |-> [template |-> <<>>],
                 QuoteTimeSeriesStore |-> [timeSeries |-> <<>>]]
    /\ stmt_ret = NoStatementCall
    /\ stmt_pc = "off"

---------------------------------------------------------------------------
(* get_json on its own: pages whose payloads hold raw-wrapped numbers with *)
(* and without display fields, empty maps, plain maps and lists.           *)

RawFmt == Map(<<<<"raw", Num("5")>>, <<"fmt", Str("x")>>>>)
RawFmtLong == Map(<<<<"raw", Num("7")>>, <<"fmt", Str("x")>>, <<"longFmt", Str("x")>>>>)
RawOnly == Map(<<<<"raw", Num("5")>>>>)
FmtRaw == Map(<<<<"fmt", Str("x")>>, <<"raw", Num("5")>>>>)
EmptyMap == Map(<<>>)

JsonLeaves ==
    {Num("5"), Str("x"), NullNode, RawFmt, RawFmtLong, RawOnly, FmtRaw, EmptyMap,
     Map(<<<<"a", Num("5")>>>>), List(<<>>), List(<<Num("7")>>)}

JsonTrees ==
    JsonLeaves
    \cup {Map(<<<<"a", x>>>>) : x \in JsonLeaves}
    \cup {Map(<<<<"a", x>>, <<"b", y>>>>) : x \in JsonLeaves, y \in JsonLeaves}
    \cup {List(<<x, y>>) : x \in JsonLeaves, y \in JsonLeaves}

JsonPages ==
    {Page(FALSE, FALSE, NullNode), Page(TRUE, FALSE, NullNode)}
    \cup {Page(TRUE, TRUE, t) : t \in JsonTrees}

JsonIdle ==
    /\ js_page = Page(FALSE, FALSE, NullNode)
    /\ js_ret = NoPayload
    /\ js_pc = "off"

AdjustIdle ==
    /\ adj_arg = NoTable
    /\ adj_data = NoTable
    /\ adj_ret = NoCall
    /\ adj_pc = "off"

InitJson ==
    /\ js_page \in JsonPages
    /\ js_ret = NoPayload
    /\ js_pc = "start"
    /\ AdjustIdle
    /\ FundIdle
    /\ HistoryIdle
    /\ StatementIdle

GetJsonCall ==
    /\ js_pc = "start"
    /\ js_ret' = get_json(js_page)
    /\ js_pc' = "done"
    /\ UNCHANGED <<js_page, adjvars, fundvars, histvars, stmtvars>>

NextJson == GetJsonCall

SpecJson == InitJson /\ [][NextJson]_vars

---------------------------------------------------------------------------
(* The adjustments on their own: a caller builds a price table and calls   *)
(* one of them.                                                            *)

MaxRows == 2

Cells(o, h, l, c, a, v) ==
    [n \in Range(QuoteColumns) |->
        CASE n = "Open" -> o [] n = "High" -> h [] n = "Low" -> l
          [] n = "Close" -> c [] n = "Adj Close" -> a [] OTHER -> v]

\* A bar Yahoo! could not price: every field null.
NullCells == Cells(NaN, NaN, NaN, NaN, NaN, NaN)

AdjCells ==
    {Cells(QInt(p[1]), QInt(p[2]), QInt(p[3]), QInt(c), QInt(a), QInt(5)) :
        p \in {<<3, 4, 1>>, <<2, 2, 2>>}, c \in {0, 2, 4}, a \in {0, 1, 2}}
    \cup {NullCells}

AdjTables ==
    UNION {{Table(QuoteColumns, [i \in 1..n |-> [ts |-> i, c |-> f[i]]], "naive") :
                f \in [1..n -> AdjCells]} : n \in 0..MaxRows}

InitAdjust ==
    /\ adj_arg \in AdjTables
    /\ adj_data = adj_arg
    /\ adj_ret = NoCall
    /\ adj_pc = "start"
    /\ JsonIdle
    /\ FundIdle
    /\ HistoryIdle
    /\ StatementIdle

AutoAdjustCall ==
    /\ adj_pc = "start"
    /\ LET r == auto_adjust(adj_data)
       IN  /\ adj_ret' = r.out
           /\ adj_data' = r.data
    /\ adj_pc' = "auto"
    /\ UNCHANGED <<adj_arg, jsvars, fundvars, histvars, stmtvars>>

BackAdjustCall ==
    /\ adj_pc = "start"
    /\ LET r == back_adjust(adj_data)
       IN  /\ adj_ret' = r.out
           /\ adj_data' = r.data
    /\ adj_pc' = "back"
    /\ UNCHANGED <<adj_arg, jsvars, fundvars, histvars, stmtvars>>

NextAdjust == AutoAdjustCall \/ BackAdjustCall

SpecAdjust == InitAdjust /\ [][NextAdjust]_vars

---------------------------------------------------------------------------
(* The fundamentals on their own: a fresh TickerBase, a web serving some   *)
(* combination of complete, partial and broken pages, and a caller making  *)
(* getter calls.                                                           *)

MaxFaults == 2

MaxCalls == 2

GoodMain == MainPage("ok", "dict", "ok", "ok", "dict", "ok", "ok", "A")

MainPages ==
    {GoodMain,
     MainPage("nomarker", "", "", "", "", "", "", ""),
     MainPage("badjson", "", "", "", "", "", "", ""),
     MainPage("ok", "null", "bad", "missing", "missing", "bad", "bad", "A"),
     MainPage("ok", "dict", "bad", "missing", "missing", "bad", "bad", "A"),
     MainPage("ok", "dict", "bad", "missing", "dict", "bad", "bad", "A"),
     MainPage("ok", "dict", "ok", "missing", "null", "ok", "ok", "A"),
     MainPage("ok", "dict", "bad", "ok", "dict", "ok", "ok", "A"),
     MainPage("ok", "dict", "ok", "ok", "dict", "ok", "ok", "B")}

GoodStatements == StatementPage("ok", "ok", "ok", "ok", "ok", "ok", "A")

NoStatements == StatementPage("nomarker", "", "", "", "", "", "")

FinancialsPages ==
    {GoodStatements, NoStatements,
     StatementPage("badjson", "", "", "", "", "", ""),
     StatementPage("ok", "missing", "bad", "missing", "ok", "ok", "A"),
     StatementPage("ok", "null", "bad", "missing", "ok", "ok", "A"),
     StatementPage("ok", "ok", "bad", "missing", "missing", "missing", "A"),
     StatementPage("ok", "ok", "bad", "ok", "ok", "ok", "A"),
     StatementPage("ok", "ok", "ok", "missing", "ok", "ok", "A"),
     StatementPage("ok", "ok", "ok", "noYearly", "ok", "ok", "A"),
     StatementPage("ok", "ok", "ok", "noQuarterly", "ok", "ok", "A"),
     StatementPage("ok", "ok", "ok", "ok", "missing", "ok", "A"),
     StatementPage("ok", "ok", "ok", "ok", "dup", "ok", "A"),
     StatementPage("ok", "ok", "ok", "ok", "ok", "missing", "A"),
     StatementPage("ok", "ok", "ok", "ok", "ok", "noTTM", "A"),
     StatementPage("ok", "ok", "ok", "ok", "ok", "noAnnual", "A"),
     StatementPage("ok", "ok", "ok", "ok", "ok", "ok", "B")}

\* the balance-sheet and cash-flow pages: only the two statement stores
\* are read
StatementOnlyPages ==
    {GoodStatements, NoStatements}
    \cup {StatementPage("ok", "ok", "ok", "ok", t, "ok", "A") : t \in {"missing", "dup"}}
    \cup {StatementPage("ok", "ok", "ok", "ok", "ok", x, "A") :
            x \in {"missing", "noTTM", "noAnnual"}}

GoodAnalysis == AnalysisPage("ok", "ok", "ok", "ok", "ok", "A")

AnalysisPages ==
    {GoodAnalysis,
     AnalysisPage("nomarker", "", "", "", "", ""),
     AnalysisPage("ok", "missing", "missing", "missing", "missing", "A"),
     AnalysisPage("ok", "ok", "missing", "missing", "missing", "A"),
     AnalysisPage("ok", "ok", "empty", "ok", "ok", "A"),
     AnalysisPage("ok", "ok", "ok", "missing", "missing", "A"),
     AnalysisPage("ok", "ok", "ok", "ok", "ok", "B")}

HolderTables == {0, 3}

GoodWeb == Web(3, GoodMain, GoodStatements, GoodStatements, GoodStatements, GoodAnalysis)

Pages == {"holders", "main", "financials", "balance", "cashflow", "analysis"}

\* the pages of w that are not the complete page
Faults(w) == {p \in Pages : w[p] # GoodWeb[p]}

\* a page from which nothing about the symbol can be had
NoData(p, pg) ==
    CASE p = "holders" -> pg = 0
      [] p = "main" ->
            pg.fetch # "ok" \/ pg.root = "null"
            \/ (pg.esg = "bad" /\ pg.sd = "missing" /\ pg.price = "missing"
                /\ pg.cal = "bad" /\ pg.rec = "bad")
      [] p = "financials" ->
            pg.fetch # "ok" \/ pg.qss # "ok"
            \/ (pg.quarterly = "bad" /\ pg.earnings = "missing"
                /\ pg.tmpl = "missing" /\ pg.series = "missing")
      [] p \in {"balance", "cashflow"} ->
            pg.fetch # "ok" \/ (pg.tmpl = "missing" /\ pg.series = "missing")
      [] p = "analysis" ->
            pg.fetch # "ok" \/ pg.qss # "ok"
            \/ (pg.trend = "missing" /\ pg.findata = "missing")

NoDataWeb(w) == \A p \in Pages : NoData(p, w[p])

AllWebs ==
    {Web(h, m, f, b, c, a) :
        h \in HolderTables, m \in MainPages, f \in FinancialsPages,
        b \in StatementOnlyPages, c \in StatementOnlyPages, a \in AnalysisPages}

Webs == {w \in AllWebs : Cardinality(Faults(w)) <= MaxFaults \/ NoDataWeb(w)}

InitFund ==
    /\ self = NewTicker
    /\ web \in Webs
    /\ fetches = 0
    /\ getret = NoGet
    /\ calls = 0
    /\ AdjustIdle
    /\ JsonIdle
    /\ HistoryIdle
    /\ StatementIdle

\* the effect of a getter call whose run of _get_fundamentals is r
GetReturns(g, r) ==
    /\ self' = r.self
    /\ fetches' = fetches + r.n
    /\ getret' = IF r.exc # "" THEN GetRaised(g, r.exc, r.at)
                  ELSE Got(g, Field(r.self, g))

\* one getter call (lines 574-702): _get_fundamentals, then the field
Get(g) ==
    /\ calls < MaxCalls
    /\ GetReturns(g, get_fundamentals(self, web))
    /\ calls' = calls + 1
    /\ UNCHANGED <<web, adjvars, jsvars, histvars, stmtvars>>

NextFund == \E g \in Getters : Get(g)

SpecFund == InitFund /\ [][NextFund]_vars

---------------------------------------------------------------------------
(* history on its own: one call on a fresh ticker, for each response the   *)
(* chart endpoint can give.                                                *)

MaxBars == 2

MaxSlot == 3

Slots == 0..MaxSlot

BarA == Cells(QInt(3), QInt(4), QInt(1), QInt(4), QInt(2), QInt(5))

BarB == Cells(QInt(2), QInt(6), QInt(2), QInt(5), QInt(5), QInt(7))

BarCells == {BarA, BarB, NullCells}

\* the bars of a response: distinct ascending timestamps
BarLists ==
    UNION {{[k \in 1..Cardinality(T) |-> Row(Ascending(T)[k], f[Ascending(T)[k]])] :
                f \in [T -> BarCells]} :
           T \in {T \in SUBSET Slots : Cardinality(T) \in 1..MaxBars}}

Dividend(date, amount) == [date |-> date, amount |-> amount]

Split(date, numerator, denominator) ==
    [date |-> date, numerator |-> numerator, denominator |-> denominator]

EventLists ==
    {[dividends |-> <<>>, splits |-> <<>>],
     [dividends |-> <<Dividend(1, QInt(2))>>, splits |-> <<>>],
     [dividends |-> <<>>, splits |-> <<Split(1, QInt(2), QInt(1))>>],
     [dividends |-> <<Dividend(1, QInt(2))>>, splits |-> <<Split(2, QInt(3), QInt(2))>>]}

ChartResults ==
    {ChartResult(TRUE, b, TRUE, e.dividends, e.splits) : b \in BarLists, e \in EventLists}
    \cup {ChartResult(TRUE, b, FALSE, <<>>, <<>>) : b \in BarLists}
    \cup {NoResult}

Responses ==
    {Response("banner", "", "", "", NoResult),
     Response("notjson", "", "", "", NoResult),
     Response("json", "absent", "", "", NoResult),
     Response("json", "present", "No data found, symbol may be delisted", "null", NoResult),
     Response("json", "present", "", "null", NoResult),
     Response("json", "present", "", "empty", NoResult)}
    \cup {Response("json", "present", "", "list", r) : r \in ChartResults}

\* the calls: any interval, and at most one of the adjustment flags, the
\* actions flag and the timezone away from its default
ArgLists ==
    {a \in {HistoryArgs(i, au, ba, ac, tz) :
                i \in {"15m", "30m", "1h", "1d"}, au \in BOOLEAN, ba \in BOOLEAN,
                ac \in BOOLEAN, tz \in {"none", "valid", "invalid"}} :
        Cardinality({x \in {"adjust", "actions", "tz"} :
            CASE x = "adjust" -> <<a.auto_adjust, a.back_adjust>> # <<TRUE, FALSE>>
              [] x = "actions" -> ~a.actions
              [] x = "tz" -> a.tz # "none"}) <= 1}

\* resampling a column of dtype object is left out
Resamplable(a, resp) ==
    (a.interval = "30m" /\ resp.result = "list" /\ resp.r.hasTimestamp) =>
        \E i \in 1..Len(resp.r.bars) : resp.r.bars[i].c # NullCells

InitHistory ==
    /\ HistoryIdle
    /\ FundIdle
    /\ AdjustIdle
    /\ JsonIdle
    /\ StatementIdle

\* the effect of a call for a period whose outcome is r (the request of
\* lines 119-168, then what the call assigned)
HistorySends(a, resp, r, period) ==
    /\ self' = [self EXCEPT !.history = r.history]
    /\ shared' = r.shared
    /\ hist_ret' = [out |-> r.out, interval |-> RequestInterval(a.interval),
                    period |-> period]
    /\ hist_call' = [args |-> a, resp |-> resp]
    /\ requests' = requests + 1

\* the effect of a call with the default period whose outcome is r
HistoryReturns(a, resp, r) == HistorySends(a, resp, r, "1mo")

HistoryCall(a, resp) ==
    /\ hist_pc = "start"
    /\ Resamplable(a, resp)
    /\ \E emptyIndex \in EmptyIndexes(a, resp) :
            HistoryReturns(a, resp, history(self.history, shared, a, resp, emptyIndex))
    /\ hist_pc' = "done"
    /\ UNCHANGED <<web, fetches, getret, calls, adjvars, jsvars, stmtvars>>

NextHistory == \E a \in ArgLists, resp \in Responses : HistoryCall(a, resp)

SpecHistory == InitHistory /\ [][NextHistory]_vars

---------------------------------------------------------------------------
(* A ticker's calls in sequence: history calls and the getters of the      *)
(* dividends and splits, each on whatever the chart endpoint answers then. *)

MaxHistoryCalls == 3

TickerArgs == {DefaultArgs, HistoryArgs("15m", FALSE, FALSE, FALSE, "none")}

TickerResponses ==
    {Response("banner", "", "", "", NoResult),
     Response("notjson", "", "", "", NoResult),
     Response("json", "present", "No data found, symbol may be delisted", "null", NoResult),
     Response("json", "present", "", "empty", NoResult),
     Response("json", "present", "", "list",
              ChartResult(TRUE, <<Row(0, BarA)>>, TRUE,
                          <<Dividend(1, QInt(2))>>, <<Split(2, QInt(3), QInt(2))>>)),
     Response("json", "present", "", "list",
              ChartResult(TRUE, <<Row(0, BarB)>>, TRUE, <<>>, <<>>)),
     Response("json", "present", "", "list",
              ChartResult(TRUE, <<Row(0, NullCells)>>, TRUE, <<>>, <<>>))}

ActionGetters == {Getter(n, "") : n \in {"get_dividends", "get_splits", "get_actions"}}

InitTicker ==
    /\ HistoryIdle
    /\ FundIdle
    /\ AdjustIdle
    /\ JsonIdle
    /\ StatementIdle

\* a history call by the caller
TickerHistoryCall(a, resp) ==
    /\ calls < MaxHistoryCalls
    /\ \E emptyIndex \in EmptyIndexes(a, resp) :
            HistoryReturns(a, resp, history(self.history, shared, a, resp, emptyIndex))
    /\ hist_pc' = "done"
    /\ calls' = calls + 1
    /\ getret' = NoGet
    /\ UNCHANGED <<web, fetches, adjvars, jsvars, stmtvars>>

\* the effect of a getter call that did r
GetterReturns(g, resp, r) ==
    /\ getret' = r.ret
    /\ IF r.fetched
       THEN /\ HistorySends(DefaultArgs, resp, r, "max")
            /\ hist_pc' = "done"
       ELSE UNCHANGED <<self, histvars>>

\* a call of get_dividends, get_splits or get_actions
GetActionsCall(g, resp) ==
    /\ calls < MaxHistoryCalls
    /\ \E emptyIndex \in EmptyIndexes(DefaultArgs, resp) :
            GetterReturns(g, resp, get_actions(g, self.history, shared, resp, emptyIndex))
    /\ calls' = calls + 1
    /\ UNCHANGED <<web, fetches, adjvars, jsvars, stmtvars>>

NextTicker ==
    \/ \E a \in TickerArgs, resp \in TickerResponses : TickerHistoryCall(a, resp)
    \/ \E g \in ActionGetters, resp \in TickerResponses : GetActionsCall(g, resp)

SpecTicker == InitTicker /\ [][NextTicker]_vars

---------------------------------------------------------------------------
(* The statement functions on their own: templates of up to five levels,   *)
(* with repeated keys and keys that hold "annual" or "trailing", and time  *)
(* series with empty, mixed, malformed and missing metrics.                *)

MaxSiblings == 2

Revenue == <<"Total", "Revenue">>

Income == <<"Net", "Income">>

Cost == <<"Cost">>

SemiannualYield == <<"Semi", "annual", "Yield">>

StopTrailing == <<"Stop", "trailing">>

TemplateKeys == {Revenue, Income, SemiannualYield, StopTrailing}

Deep4 ==
    <<Parent(Revenue, <<Parent(Income, <<Parent(Cost, <<Leaf(Revenue)>>),
                                         Leaf(Income)>>),
                        Leaf(Cost)>>),
      Leaf(Income)>>

Deep5 ==
    <<Parent(Revenue, <<Parent(Income, <<Parent(Cost,
        <<Parent(Revenue, <<Leaf(Income)>>), Leaf(Cost)>>)>>)>>)>>

Nested ==
    <<Parent(Revenue, <<Leaf(Income), Leaf(Cost)>>), Parent(Cost, <<Leaf(Revenue)>>)>>

NoChildren == <<Parent(Revenue, <<>>), Leaf(Income)>>

\* every list of up to MaxSiblings leaves, and the nested templates
Templates ==
    {[i \in 1..Len(ks) |-> Leaf(ks[i])] :
        ks \in UNION {[1..n -> TemplateKeys] : n \in 0..MaxSiblings}}
    \cup {Deep4, Deep5, Nested, NoChildren}

Y2019 == <<"2019">>

Y2020 == <<"2020">>

\* an annual and a trailing series of a key
Both(key) ==
    <<Metric(annual(key), <<Obs(Y2019, QInt(10), "12M"), Obs(Y2020, QInt(12), "12M")>>),
      Metric(trailing(key), <<Obs(Y2020, QInt(13), "TTM")>>)>>

Complete_ == Both(Revenue) \o Both(Income)

Odd ==
    <<Metric(annual(Revenue), <<Obs(Y2019, QInt(10), "12M"), Obs(Y2019, QInt(11), "12M")>>),
      Metric(trailing(Revenue), <<Obs(Y2019, QInt(9), "12M"), Obs(Y2020, QInt(13), "TTM")>>),
      Metric(annual(Income), <<>>),
      Metric(trailing(Income), <<Obs(Y2020, QInt(4), "3M")>>),
      Metric(<<"timestamp">>, <<Scalar>>),
      Metric(annual(Cost), <<Obs(Y2020, QInt(5), "12M")>>),
      Metric(trailing(Cost), <<Obs(Y2019, NaN, "TTM")>>)>>

Swapped ==
    <<Metric(annual(Revenue), <<Obs(Y2019, QInt(10), "12M"), Obs(Y2020, QInt(12), "TTM")>>),
      Metric(trailing(Revenue), <<Obs(Y2020, QInt(13), "12M")>>)>>

AnnualOnly ==
    <<Metric(annual(Revenue), <<Obs(Y2019, QInt(10), "12M")>>),
      Metric(annual(Income), <<Obs(Y2020, QInt(3), "12M")>>)>>

Infixed == Both(SemiannualYield) \o Both(StopTrailing) \o Both(Revenue)

TimeSeriesStores ==
    {[timeSeries |-> ts] : ts \in {Complete_, Odd, Swapped, AnnualOnly, Infixed, <<>>}}
    \cup {[meta |-> <<>>]}

InitStatement ==
    /\ stores \in {[FinancialTemplateStore |-> [template |-> t], QuoteTimeSeriesStore |-> q] :
                        t \in Templates, q \in TimeSeriesStores}
    /\ stmt_ret = NoStatementCall
    /\ stmt_pc = "start"
    /\ AdjustIdle
    /\ JsonIdle
    /\ FundIdle
    /\ HistoryIdle

StatementReturns(op, out) ==
    /\ stmt_ret' = [op |-> op, out |-> out]
    /\ stmt_pc' = "done"
    /\ UNCHANGED <<stores, adjvars, jsvars, fundvars, histvars>>

BuildTemplateCall ==
    /\ stmt_pc = "start"
    /\ StatementReturns("build_template", Return(build_template(stores.FinancialTemplateStore)))

RetrieveCall ==
    /\ stmt_pc = "start"
    /\ StatementReturns("retreive_financial_details",
                        retreive_financial_details(stores.QuoteTimeSeriesStore))

ReindexCall ==
    /\ stmt_pc = "start"
    /\ StatementReturns("reindex",
            Reindexed(build_template(stores.FinancialTemplateStore),
                      retreive_financial_details(stores.QuoteTimeSeriesStore)))

StatementCall(kind) ==
    /\ stmt_pc = "start"
    /\ StatementReturns(kind, Return(statement(kind, stores)))

NextStatement ==
    \/ BuildTemplateCall
    \/ RetrieveCall
    \/ ReindexCall
    \/ \E kind \in {"income_statement", "balance_sheet", "cash_flow_statement"} :
            StatementCall(kind)

SpecStatement == InitStatement /\ [][NextStatement]_vars

---------------------------------------------------------------------------
(* Claims about history, under SpecHistory.  A chart entry is taken to     *)
(* carry both its error and its result key, and an error its description,  *)
(* as the chart endpoint's envelope does.                                  *)

\* the response has a chart.error, no chart, a null or empty result, or
\* quotes whose parsing raises
Unusable(a, resp) ==
    /\ resp.kind = "json"
    /\ \/ resp.chart = "absent"
       \/ resp.error # ""
       \/ resp.result \in {"null", "empty"}
       \/ parse_quotes(resp.r, a.tz).kind = "raise"

\* C1: a history call on a decoded response with a chart.error, without
\* chart, with a null or empty result, or whose quotes do not parse,
\* returns the empty price table, records an error message (the error's
\* description where there is one) together with the empty table in the
\* shared store, and raises nothing.
HistoryDegradesToEmptyTable ==
    (hist_pc = "done" /\ Unusable(hist_call.args, hist_call.resp)) =>
        /\ hist_ret.out = Returned(empty_df)
        /\ shared.DFS = Frame(empty_df)
        /\ shared.ERRORS # ""
        /\ shared.ERRORS = IF hist_call.resp.chart = "present" /\ hist_call.resp.error # ""
                           THEN hist_call.resp.error ELSE NoDataFound

\* C1 witness: a result without timestamps, whose parsing raised, came back
\* as the empty table with the error recorded
HistoryDegradeWitness ==
    /\ hist_pc = "done"
    /\ hist_call.resp.result = "list"
    /\ ~hist_call.resp.r.hasTimestamp
    /\ hist_ret.out = Returned(empty_df)
    /\ shared.ERRORS = NoDataFound

\* the largest of the values, 0 where there is none
MaxOrZero(vals) == IF vals = <<>> THEN QInt(0) ELSE MaxValid(vals)

\* C8: with interval 30m, no adjustment, actions on and no timezone, on a
\* usable response whose bars are all priced, the request is made at 15m
\* and the returned table has exactly one row per 30-minute window holding
\* a bar, at the window's start: Open the first bar's, High the maximum,
\* Low the minimum, Close and Adj Close the last bar's, Volume the sum,
\* Dividends and Stock Splits the maximum of the window's events.
Resample30mAggregatesWindows ==
    LET a == hist_call.args
        r == hist_call.resp.r
        bars == parse_quotes(r, "none").table.rows
        out == hist_ret.out.table.rows
        sub(w) == SelectSeq(bars, LAMBDA b : Window(b.ts) = w)
        col(w, n) == [i \in 1..Len(sub(w)) |-> sub(w)[i].c[n]]
        divs(w) == LET in == SelectSeq(r.dividends, LAMBDA d : Window(d.date) = w)
                   IN  [i \in 1..Len(in) |-> in[i].amount]
        spls(w) == LET in == SelectSeq(r.splits, LAMBDA d : Window(d.date) = w)
                   IN  [i \in 1..Len(in) |-> QDiv(in[i].numerator, in[i].denominator)]
    IN  (/\ hist_pc = "done"
         /\ a = HistoryArgs("30m", FALSE, FALSE, TRUE, "none")
         /\ Usable(a, hist_call.resp)
         /\ \A i \in 1..Len(r.bars) : r.bars[i].c # NullCells
         /\ hist_ret.out.kind = "table") =>
            /\ hist_ret.interval = "15m"
            /\ {out[i].ts : i \in 1..Len(out)} = {Window(bars[i].ts) : i \in 1..Len(bars)}
            /\ \A i, j \in 1..Len(out) : i < j => out[i].ts < out[j].ts
            /\ \A i \in 1..Len(out) :
                    LET w == out[i].ts
                    IN  /\ out[i].c["Open"] = col(w, "Open")[1]
                        /\ out[i].c["High"] = MaxValid(col(w, "High"))
                        /\ out[i].c["Low"] = MinValid(col(w, "Low"))
                        /\ out[i].c["Close"] = col(w, "Close")[Len(sub(w))]
                        /\ out[i].c["Adj Close"] = col(w, "Adj Close")[Len(sub(w))]
                        /\ out[i].c["Volume"] = SumValid(col(w, "Volume"))
                        /\ out[i].c["Dividends"] = MaxOrZero(divs(w))
                        /\ out[i].c["Stock Splits"] = MaxOrZero(spls(w))

\* the quotes as parsed and resampled, before any adjustment
RawQuotes(a, resp) == Resampled(parse_quotes(resp.r, a.tz).table, a)

\* the one adjustment the flags ask for, auto_adjust first
Expected(a, quotes) ==
    IF a.auto_adjust THEN auto_adjust(quotes).out.table
    ELSE IF a.back_adjust THEN back_adjust(quotes).out.table
    ELSE quotes

\* a row that comes from a quote bar
QuoteRow(r) == \E n \in Range(OHLC) : ~IsNull(r.c[n])

\* C11: in a call that keeps the timestamps (not a daily interval, no
\* timezone) and whose adjustment does not raise, the returned price columns
\* are those of exactly one adjustment: auto_adjust when auto_adjust is set
\* (back_adjust set or not), back_adjust when only back_adjust is set, and
\* the raw columns with Adj Close when neither is; every returned quote row
\* is the row of that table at its timestamp.
OneAdjustmentApplied ==
    LET a == hist_call.args
        raw == RawQuotes(a, hist_call.resp)
        out == hist_ret.out.table
    IN  (/\ hist_pc = "done"
         /\ a.tz = "none"
         /\ a.interval # "1d"
         /\ Usable(a, hist_call.resp)
         /\ ~AdjustTypeError(raw)
         /\ hist_ret.out.kind = "table") =>
            /\ SelectSeq(out.cols, LAMBDA n : n \notin {"Dividends", "Stock Splits"})
                    = Expected(a, raw).cols
            /\ \A i \in 1..Len(out.rows) :
                    QuoteRow(out.rows[i]) =>
                        \E j \in 1..Len(raw.rows) :
                            /\ raw.rows[j].ts = out.rows[i].ts
                            /\ \A n \in Range(Expected(a, raw).cols) :
                                    out.rows[i].c[n] = Expected(a, raw).rows[j].c[n]

\* C11 witness: both flags set, and the returned bar is the auto-adjusted
\* one (Close is the input's Adj Close, Open is scaled)
OneAdjustmentWitness ==
    /\ hist_pc = "done"
    /\ hist_call.args = HistoryArgs("15m", TRUE, TRUE, TRUE, "none")
    /\ hist_call.resp.result = "list"
    /\ hist_call.resp.r.bars = <<Row(0, BarA)>>
    /\ hist_call.resp.r.hasAdjclose
    /\ hist_ret.out.kind = "table"
    /\ Len(hist_ret.out.table.rows) = 1
    /\ hist_ret.out.table.rows[1].c["Close"] = QInt(2)
    /\ hist_ret.out.table.rows[1].c["Open"] = Norm(3, 2)

\* the adjustment asked for raises
AdjustRaises(a, resp) == Usable(a, resp) /\ Attempt(RawQuotes(a, resp), a).kind = "raise"

\* C12: when the adjustment raises, history does not raise, records an
\* error naming the adjustment, and returns the all-null placeholder table
\* that it stored for the symbol.
FailedAdjustReturnsPlaceholder ==
    (hist_pc = "done" /\ hist_call.args.tz = "none"
        /\ AdjustRaises(hist_call.args, hist_call.resp)) =>
        /\ hist_ret.out.kind = "table"
        /\ shared.ERRORS \in {"auto_adjust failed with TypeError",
                              "back_adjust failed with TypeError"}
        /\ shared.DFS = Frame(empty_df)
        /\ hist_ret.out.table = shared.DFS.t

\* a call that returned a table from a usable response, no timezone given
Succeeded ==
    /\ hist_pc = "done"
    /\ hist_call.args.tz = "none"
    /\ Usable(hist_call.args, hist_call.resp)
    /\ hist_ret.out.kind = "table"

\* the joined table with its final index, before the cleanup of lines 272-275
Indexed(a, resp) == Localize(Combine(Shared(NoHistory, ""), a, resp).df, a)

\* C13: the returned index is strictly ascending, and the row returned for
\* a timestamp is, in every column, the last of the rows that share it.
LaterRowSurvives ==
    LET out == hist_ret.out.table.rows
        in == Indexed(hist_call.args, hist_call.resp).rows
        same(ts) == SelectSeq(in, LAMBDA r : r.ts = ts)
    IN  (Succeeded /\ hist_call.args.actions) =>
            /\ \A i, j \in 1..Len(out) : i < j => out[i].ts < out[j].ts
            /\ \A i \in 1..Len(out) :
                    out[i].c = same(out[i].ts)[Len(same(out[i].ts))].c

\* C14: no returned row has Open, High, Low and Close all null.
NoRowWithoutPrices ==
    Succeeded => \A i \in 1..Len(hist_ret.out.table.rows) :
                    QuoteRow(hist_ret.out.table.rows[i])

\* the timestamp a row of the returned table has for an input timestamp
Stamp(a, ts) ==
    IF RequestInterval(a.interval) \in MinuteIntervals \cup {"1h"} THEN ts ELSE Date(ts)

\* the value of the events at a returned timestamp, 0 where there is none
EventValue(a, events, ts, Val(_)) ==
    IF \E i \in 1..Len(events) : Stamp(a, events[i].date) = ts
    THEN Val(CHOOSE e \in Range(events) : Stamp(a, e.date) = ts)
    ELSE QInt(0)

Amount(e) == e.amount

Ratio(e) == QDiv(e.numerator, e.denominator)

\* C15: with actions on, every returned row holds the amount of the
\* dividend at its timestamp and the ratio of the split at its timestamp,
\* 0 where there is none, never null.
ActionsAtTheirTimestamps ==
    LET a == hist_call.args
        r == hist_call.resp.r
        out == hist_ret.out.table.rows
    IN  (Succeeded /\ a.actions) =>
            \A i \in 1..Len(out) :
                /\ out[i].c["Dividends"] = EventValue(a, r.dividends, out[i].ts, Amount)
                /\ out[i].c["Stock Splits"] = EventValue(a, r.splits, out[i].ts, Ratio)

\* C16: on a usable response, whatever the interval and the timezone, the
\* call returns a table, its index in the exchange timezone for the minute
\* and hourly intervals, and in dates, localized to the timezone given if
\* any, for the others.
EveryTimezoneCompletes ==
    LET a == hist_call.args
    IN  (hist_pc = "done" /\ Usable(a, hist_call.resp)) =>
            /\ hist_ret.out.kind = "table"
            /\ hist_ret.out.table.tz =
                    IF RequestInterval(a.interval) \in MinuteIntervals \cup {"1h"}
                    THEN "exchange"
                    ELSE IF a.tz # "none" THEN a.tz ELSE "naive"

\* the quote rows that reach the join of line 254
JoinedQuotes(a, resp) ==
    dropna(FillVolume(Adjust(RawQuotes(a, resp), Shared(NoHistory, ""), a).quotes))

\* C21: a row goes as a duplicate only when another row has its timestamp:
\* every bar without a null that reaches the join has a row at its
\* timestamp in the returned table, also when another bar has its values.
DuplicatesAreByTimestamp ==
    LET a == hist_call.args
    IN  Succeeded =>
            \A ts \in Index(JoinedQuotes(a, hist_call.resp)) :
                \E i \in 1..Len(hist_ret.out.table.rows) :
                    hist_ret.out.table.rows[i].ts = Stamp(a, ts)

---------------------------------------------------------------------------
(* Claims about a ticker's calls in sequence, under SpecTicker.            *)

\* the step sends a chart request whose call degrades or meets the banner
FailedCall ==
    /\ requests' = requests + 1
    /\ \/ Unusable(hist_call'.args, hist_call'.resp)
       \/ hist_call'.resp.kind = "banner"

\* the step is a call of a dividends or splits getter on a ticker without
\* cached history that leaves it without
GetterWithoutHistory ==
    /\ getret'.kind # "none"
    /\ self.history = NoHistory
    /\ self'.history = NoHistory

\* C23 as stated: a history call that degrades or meets the outage banner
\* leaves the cached history as it was; while no history call has
\* succeeded, each call of get_dividends, get_splits and get_actions sends
\* a max-period request and returns an empty list.
GettersReturnEmptyList ==
    [][/\ FailedCall => self'.history = self.history
       /\ GetterWithoutHistory =>
            /\ requests' = requests + 1
            /\ hist_ret'.period = "max"
            /\ getret'.kind = "value"
            /\ getret'.val = EmptyList]_vars

\* C23: a history call that degrades or meets the outage banner leaves the
\* cached history as it was; while no history call has succeeded, each
\* call of get_dividends, get_splits and get_actions sends a max-period
\* request, returns an empty list where that call returned, and raises
\* what that call raised.
GettersRefetchWithoutHistory ==
    [][/\ FailedCall => self'.history = self.history
       /\ GetterWithoutHistory =>
            /\ requests' = requests + 1
            /\ hist_ret'.period = "max"
            /\ IF hist_ret'.out.kind = "raise"
               THEN getret'.kind = "raise" /\ getret'.exc = hist_ret'.out.exc
               ELSE getret'.kind = "value" /\ getret'.val = EmptyList]_vars

GettersRefetchWitness ==
    /\ calls = 2
    /\ requests = 2
    /\ self.history = NoHistory
    /\ getret = Got(Getter("get_dividends", ""), EmptyList)
    /\ hist_ret.period = "max"
    /\ shared.ERRORS # ""

\* C24: after any sequence of history calls the store holds an error
\* message only if the most recent history call degraded, and a call that
\* returned a normal table leaves neither a message nor a placeholder.
ErrorStoreFollowsLastCall ==
    requests > 0 =>
        /\ shared.ERRORS # "" => Unusable(hist_call.args, hist_call.resp)
        /\ (hist_ret.out.kind = "table" /\ Usable(hist_call.args, hist_call.resp))
                => shared = Shared(NoHistory, "")

---------------------------------------------------------------------------
(* Claims about the statements, under SpecStatement.                       *)

\* the number of levels of a list of nodes, 0 for the empty list
RECURSIVE Depth(_)
Depth(nodes) ==
    IF nodes = <<>> THEN 0
    ELSE LET below == IF "children" \in DOMAIN Head(nodes)
                      THEN 1 + Depth(Head(nodes).children) ELSE 1
             beside == Depth(Tail(nodes))
         IN  IF below > beside THEN below ELSE beside

\* the number of nodes of a list of nodes, at every level
RECURSIVE NodeCount(_)
NodeCount(nodes) ==
    IF nodes = <<>> THEN 0
    ELSE 1 + (IF "children" \in DOMAIN Head(nodes)
              THEN NodeCount(Head(nodes).children) ELSE 0)
           + NodeCount(Tail(nodes))

\* the node at a place of the depth-first pre-order, with its depth
RECURSIVE NodeAt(_, _, _)
NodeAt(nodes, i, depth) ==
    LET under == IF "children" \in DOMAIN Head(nodes)
                 THEN NodeCount(Head(nodes).children) ELSE 0
    IN  IF i = 1 THEN Item(Head(nodes).key, depth)
        ELSE IF i <= 1 + under THEN NodeAt(Head(nodes).children, i - 1, depth + 1)
        ELSE NodeAt(Tail(nodes), i - 1 - under, depth)

\* C17: for a template of at most four levels, build_template returns
\* three lists as long as the template has nodes; place i holds "trailing"
\* + key, "annual" + key and the depth of the i-th node of the depth-first
\* pre-order, siblings in their order and repeated keys kept; a node
\* without children is a leaf.
BuildTemplateFlattensPreorder ==
    LET template == stores.FinancialTemplateStore.template
        out == stmt_ret.out.value
    IN  (stmt_pc = "done" /\ stmt_ret.op = "build_template" /\ Depth(template) <= 4) =>
            /\ stmt_ret.out.kind = "return"
            /\ Len(out.template_ttm_order) = NodeCount(template)
            /\ Len(out.template_annual_order) = NodeCount(template)
            /\ Len(out.level_detail) = NodeCount(template)
            /\ \A i \in 1..NodeCount(template) :
                    /\ out.template_ttm_order[i] = <<"trailing">> \o NodeAt(template, i, 0).key
                    /\ out.template_annual_order[i] = <<"annual">> \o NodeAt(template, i, 0).key
                    /\ out.level_detail[i] = NodeAt(template, i, 0).level

BuildTemplateWitness ==
    /\ stmt_pc = "done"
    /\ stmt_ret.op = "build_template"
    /\ stores.FinancialTemplateStore.template = Deep4
    /\ stmt_ret.out.value.level_detail = <<0, 1, 2, 3, 2, 1, 0>>
    /\ stmt_ret.out.value.template_annual_order[4] = <<"annual", "Total", "Revenue">>

\* the rows of a list that carry a key
RowsOf(dicts, key) == SelectSeq(dicts, LAMBDA r : r.index = key)

\* the place of a key among the metrics
PlaceOf(timeSeries, key) == CHOOSE i \in 1..Len(timeSeries) : timeSeries[i].key = key

\* a row is {index: key, asOfDate: reportedValue, ...} of the observations
RowHolds(row, m) ==
    /\ row.index = m.key
    /\ DOMAIN row.c = {m.obs[i].asOfDate : i \in 1..Len(m.obs)}
    /\ \A i \in 1..Len(m.obs) :
            (\A j \in (i + 1)..Len(m.obs) : m.obs[j].asOfDate # m.obs[i].asOfDate)
                => row.c[m.obs[i].asOfDate] = m.obs[i].reportedValue

\* the rows of a list stand in the order of the metrics
InKeyOrder(dicts, timeSeries) ==
    \A i, j \in 1..Len(dicts) :
        i < j => PlaceOf(timeSeries, dicts[i].index) < PlaceOf(timeSeries, dicts[j].index)

ReindexedBy(df, dicts, order) ==
    /\ Len(df.rows) = Len(order)
    /\ \A i \in 1..Len(order) :
        /\ df.rows[i].index = order[i]
        /\ DOMAIN df.rows[i].c = Range(df.columns)
        /\ \A d \in Range(df.columns) :
            df.rows[i].c[d] =
                IF \E r \in Range(dicts) : r.index = order[i] /\ d \in DOMAIN r.c
                THEN (CHOOSE r \in Range(dicts) : r.index = order[i]).c[d]
                ELSE NaN

\* C19: the TTM and Annual tables reindexed by the template's key orders
\* have one row per place of the template, in its order; a key without a
\* metric gives a null row, a metric outside the template no row.
ReindexKeepsTemplateOrder ==
    LET t == build_template(stores.FinancialTemplateStore)
        d == retreive_financial_details(stores.QuoteTimeSeriesStore)
    IN  (stmt_pc = "done" /\ stmt_ret.op = "reindex" /\ stmt_ret.out.kind = "return") =>
            /\ ReindexedBy(stmt_ret.out.value.TTM, d.value.TTM_dicts, t.template_ttm_order)
            /\ ReindexedBy(stmt_ret.out.value.Annual, d.value.Annual_dicts,
                           t.template_annual_order)

ReindexWitness ==
    /\ stmt_pc = "done"
    /\ stmt_ret.op = "reindex"
    /\ stores.FinancialTemplateStore.template = <<Leaf(SemiannualYield), Leaf(Revenue)>>
    /\ stores.QuoteTimeSeriesStore = [timeSeries |-> Complete_]
    /\ stmt_ret.out.kind = "return"
    /\ Len(stmt_ret.out.value.Annual.rows) = 2
    /\ \A d \in {Y2019, Y2020} : IsNull(stmt_ret.out.value.Annual.rows[1].c[d])
    /\ stmt_ret.out.value.Annual.rows[2].c[Y2020] = QInt(12)

\* C20: for every template, also one with a repeated key or a key that
\* holds "annual" or "trailing", the merge of the two reindexed tables has
\* one row per place of the template, in its order, with the annual and
\* the "TTM " columns, so that the statement is built with level_detail
\* attached place by place.
MergeKeepsTemplateSlots ==
    LET t == build_template(stores.FinancialTemplateStore)
        r == Reindexed(t, retreive_financial_details(stores.QuoteTimeSeriesStore))
        items == Walk(stores.FinancialTemplateStore.template, 0)
    IN  (/\ stmt_pc = "done"
         /\ stmt_ret.op \in {"income_statement", "cash_flow_statement"}
         /\ r.kind = "return") =>
            /\ Len(Merged(r.value.TTM, r.value.Annual).rows) = Len(items)
            /\ \A i \in 1..Len(items) :
                /\ Merged(r.value.TTM, r.value.Annual).rows[i].index = items[i].key
                /\ DOMAIN Merged(r.value.TTM, r.value.Annual).rows[i].c
                    = Range(r.value.Annual.columns)
                        \cup {<<"TTM ">> \o c : c \in Range(r.value.TTM.columns)}
            /\ stmt_ret.out.value.columns # <<>>

---------------------------------------------------------------------------
(* Claims about the fundamentals, under SpecFund.                          *)

\* the page each cached section is built from
SectionsOf(p) ==
    CASE p = "holders" -> {"major_holders", "institutional_holders", "mutualfund_holders"}
      [] p = "main" -> {"sustainability", "info", "calendar", "recommendations"}
      [] p = "financials" ->
            {"quarterly_cash_flow", "quarterly_balance_sheet",
             "quarterly_income_statement", "earnings", "income_statement"}
      [] p = "balance" -> {"balance_sheet"}
      [] p = "cashflow" -> {"cash_flow_statement"}
      [] p = "analysis" ->
            {"analyst_trend_details", "analyst_price_target", "rev_est", "eps_est"}

Sections == UNION {SectionsOf(p) : p \in Pages}

PayloadPages == Pages \ {"holders"}

\* a section holding nothing from the web
Empty(v) ==
    \/ v = NewTicker.earnings
    \/ v \in {None, EmptyDf, EmptyFrame, Value("dict", "", "")}

\* the object after _get_fundamentals on a fresh ticker against web w
After(w) == get_fundamentals(NewTicker, w).self

\* C2: when exactly one payload page lacks the data marker (every other
\* page complete), the first getter call does not raise, the sections of
\* that page are empty and every other section is what the complete web
\* gives.
MarkerlessPageIsIsolated ==
    \A p \in PayloadPages :
        (calls = 1 /\ Faults(web) = {p} /\ web[p].fetch = "nomarker") =>
            /\ getret.kind = "value"
            /\ \A x \in SectionsOf(p) : Empty(self[x])
            /\ \A x \in Sections \ SectionsOf(p) : self[x] = After(GoodWeb)[x]

\* C3: when every payload is extracted, whatever section data is missing
\* or malformed inside, a getter call does not raise and the object is
\* marked as fetched.
MalformedSectionsAreIsolated ==
    (calls >= 1 /\ \A p \in PayloadPages : web[p].fetch = "ok") =>
        /\ getret.kind = "value"
        /\ self.fundamentals

StatementKinds == {"income_statement", "balance_sheet", "cash_flow_statement"}

StatementSource(k) ==
    CASE k = "income_statement" -> "financials"
      [] k = "balance_sheet" -> "balance"
      [] k = "cash_flow_statement" -> "cashflow"

\* the run got as far as the statements
ReachedStatements ==
    calls >= 1 /\ getret.at \notin {"main", "info", "financials", "quarterly"}

\* the web with the statement stores of page p as they should be
Repaired(w, p) ==
    [w EXCEPT ![p] = IF @.fetch = "ok" THEN [@ EXCEPT !.tmpl = "ok", !.series = "ok"]
                     ELSE GoodStatements]

\* C4: when assembling a statement raises, that statement is an empty
\* DataFrame, the exception does not leave _get_fundamentals (a run that
\* raises at all raises from the estimates), and the other two statements
\* are what they are on the web where the failing statement's stores are
\* sound.
StatementFailureIsIsolated ==
    \A k \in StatementKinds :
        (ReachedStatements /\ StatementRaises(k, web[StatementSource(k)])) =>
            /\ self[k] = EmptyFrame
            /\ getret.at \in {"", "estimates"}
            /\ \A j \in StatementKinds \ {k} :
                    self[j] = After(Repaired(web, StatementSource(k)))[j]

\* C4 witness: the balance sheet failed to assemble, the other two
\* statements were built and the run completed
StatementFailureWitness ==
    /\ calls = 1
    /\ StatementRaises("balance_sheet", web.balance)
    /\ ~StatementRaises("income_statement", web.financials)
    /\ self.fundamentals
    /\ self.balance_sheet = EmptyFrame
    /\ self.income_statement.k = "table"
    /\ self.cash_flow_statement.k = "table"

\* C5: the earnings of a symbol whose pages hold no data at all raise
\* ValueError.
NoDataEarningsRaisesValueError ==
    (calls = 1 /\ getret.getter.name = "get_earnings" /\ NoDataWeb(web)) =>
        /\ getret.kind = "raise"
        /\ getret.exc = "ValueError"

\* C6: the first earnings access of a fresh ticker, every page complete,
\* makes exactly two get_json calls and returns the yearly earnings of the
\* financials payload.
FirstEarningsAccessFetchesTwice ==
    (calls = 1 /\ getret.getter = Getter("get_earnings", "yearly") /\ web = GoodWeb) =>
        /\ fetches = 2
        /\ getret = Got(Getter("get_earnings", "yearly"), Built(web.financials.v, "yearly"))

\* C22: once a run of _get_fundamentals has completed, a getter call
\* fetches nothing and leaves every cached section as it is; a run that an
\* exception ended leaves the flag unset, and the next getter call fetches
\* again.
FundamentalsFetchedOnce ==
    [][/\ self.fundamentals => (fetches' = fetches /\ self' = self)
       /\ ~self.fundamentals => fetches' > fetches
       /\ getret'.kind = "raise" => ~self'.fundamentals]_vars

FundamentalsCachedWitness ==
    /\ calls = 2
    /\ self.fundamentals
    /\ fetches = 5
    /\ getret.kind = "value"

---------------------------------------------------------------------------
(* Claims about the adjustments, under SpecAdjust.                         *)

IsNumber(q) == q[2] # 0

NonZero(q) == IsNumber(q) /\ q[1] # 0

NonZeroClose(t) == \A i \in 1..Len(t.rows) : NonZero(t.rows[i].c["Close"])

NonZeroCloses(t) ==
    \A i \in 1..Len(t.rows) :
        NonZero(t.rows[i].c["Close"]) /\ NonZero(t.rows[i].c["Adj Close"])

\* x * (Adj Close / Close) of row i of the caller's table
TimesAdjOverClose(t, i, n) ==
    QMul(t.rows[i].c[n], QDiv(t.rows[i].c["Adj Close"], t.rows[i].c["Close"]))

\* C9: on a price table whose Close and Adj Close are all non-zero,
\* auto_adjust returns a table with exactly the columns Open, High, Low,
\* Close, Volume, one row per input row, where Close is the input's Adj
\* Close, Open/High/Low are the input's values times Adj Close / Close of
\* the same row and Volume is the input's; the caller's table is unchanged.
AutoAdjustScalesByAdjOverClose ==
    (adj_pc = "auto" /\ NonZeroCloses(adj_arg)) =>
        /\ adj_ret.kind = "table"
        /\ adj_ret.table.cols = <<"Open", "High", "Low", "Close", "Volume">>
        /\ Len(adj_ret.table.rows) = Len(adj_arg.rows)
        /\ \A i \in 1..Len(adj_arg.rows) :
              LET out == adj_ret.table.rows[i]
                  in == adj_arg.rows[i]
              IN  /\ out.ts = in.ts
                  /\ DOMAIN out.c = {"Open", "High", "Low", "Close", "Volume"}
                  /\ out.c["Close"] = in.c["Adj Close"]
                  /\ \A n \in {"Open", "High", "Low"} :
                        out.c[n] = TimesAdjOverClose(adj_arg, i, n)
                  /\ out.c["Volume"] = in.c["Volume"]
        /\ adj_data = adj_arg

\* C9 witness: auto_adjust has run on two priced rows, one of them with
\* Close different from Adj Close, and has changed that row's Open.
AutoAdjustWitness ==
    /\ adj_pc = "auto"
    /\ NonZeroCloses(adj_arg)
    /\ Len(adj_arg.rows) = 2
    /\ adj_ret.kind = "table"
    /\ \E i \in 1..2 :
          /\ adj_arg.rows[i].c["Close"] # adj_arg.rows[i].c["Adj Close"]
          /\ adj_ret.table.rows[i].c["Open"] # adj_arg.rows[i].c["Open"]

\* C10 as stated: on a price table whose Close is non-zero, back_adjust
\* replaces each of Open, High, Low and Close by its raw value times
\* Adj Close / Close of the same row.
BackAdjustReplacesOHLC ==
    (adj_pc = "back" /\ NonZeroClose(adj_arg)) =>
        /\ adj_ret.kind = "table"
        /\ Len(adj_ret.table.rows) = Len(adj_arg.rows)
        /\ \A i \in 1..Len(adj_arg.rows) :
              \A n \in Range(OHLC) :
                  adj_ret.table.rows[i].c[n] = TimesAdjOverClose(adj_arg, i, n)

---------------------------------------------------------------------------
(* Claims about get_json, under SpecJson.                                  *)

HasKey(n, key) == \E i \in 1..Len(n.kids) : n.kids[i].k = key

ValueAt(n, key) == n.kids[CHOOSE i \in 1..Len(n.kids) : n.kids[i].k = key].n

RECURSIVE Collapsed(_)

\* The tree with every map that has a "raw" entry replaced by that entry's
\* value and every empty map replaced by null.
Collapsed(n) ==
    IF n.t = "map" /\ HasKey(n, "raw") THEN Collapsed(ValueAt(n, "raw"))
    ELSE IF n.t = "map" /\ n.kids = <<>> THEN NullNode
    ELSE IF n.t \in {"map", "list"}
         THEN [n EXCEPT !.kids = [i \in 1..Len(n.kids) |->
                                    Entry(n.kids[i].k, Collapsed(n.kids[i].n))]]
         ELSE n

\* C7 as stated: for every parsed payload tree, get_json returns the tree
\* with every map that has a "raw" entry replaced by that entry's value,
\* whatever its other fields, and every empty map replaced by null.
GetJsonCollapsesEveryRawMap ==
    (js_pc = "done" /\ js_page.marker /\ js_page.literal) =>
        js_ret = Payload(Collapsed(js_page.tree))

===========================================================================
